---- MODULE Spec2Model ----
(***************************************************************************)
(* Two-pass assembler of src/lib/assembler.ts (Tiny Basic intermediate     *)
(* language).  Source lines are strings; every helper of the assembler is  *)
(* an operator over strings that computes what the TypeScript computes,    *)
(* and the two passes are state machines that consume one line per step.   *)
(***************************************************************************)
EXTENDS Integers, Sequences, FiniteSets, TLC

(***************************************************************************)
(* Characters.  A character is a string of length 1.  AsciiLow lists the   *)
(* characters of codes 32..95 and AsciiHigh those of codes 97..126, in     *)
(* code order (code 96, the backtick, cannot be written in a TLA+ string   *)
(* and is not part of the modelled alphabet).                              *)
(***************************************************************************)
AsciiLow == " !\"#$%&'()*+,-./0123456789:;<=>?@ABCDEFGHIJKLMNOPQRSTUVWXYZ[\\]^_"
AsciiHigh == "abcdefghijklmnopqrstuvwxyz{|}~"

Chars == {SubSeq(AsciiLow, k, k) : k \in 1..Len(AsciiLow)} \cup {SubSeq(AsciiHigh, k, k) : k \in 1..Len(AsciiHigh)}

\* String.prototype.charCodeAt for one character.
charCodeAt == [c \in Chars |->
  IF \E k \in 1..Len(AsciiLow) : SubSeq(AsciiLow, k, k) = c
  THEN 31 + CHOOSE k \in 1..Len(AsciiLow) : SubSeq(AsciiLow, k, k) = c
  ELSE 96 + CHOOSE k \in 1..Len(AsciiHigh) : SubSeq(AsciiHigh, k, k) = c]

\* s[k] with k counted from 1; "" when k is outside the string (JS: undefined).
At(s, k) == IF k >= 1 /\ k <= Len(s) THEN SubSeq(s, k, k) ELSE ""

\* String.prototype.substring on positions counted from 1: the characters of
\* s at positions from..to, clipped to the string.
substring(s, from, to) ==
  LET a == IF from < 1 THEN 1 ELSE from
      b == IF to > Len(s) THEN Len(s) ELSE to
  IN IF a > b THEN "" ELSE SubSeq(s, a, b)

Min(S) == CHOOSE x \in S : \A y \in S : x <= y
Max(S) == CHOOSE x \in S : \A y \in S : x >= y

\* The regular-expression classes the assembler uses.
Whitespace == {" ", "\t"}
IsSpace(c) == c \in Whitespace
IsDigit(c) == c \in Chars /\ charCodeAt[c] >= 48 /\ charCodeAt[c] <= 57
IsUpper(c) == c \in Chars /\ charCodeAt[c] >= 65 /\ charCodeAt[c] <= 90
IsLower(c) == c \in Chars /\ charCodeAt[c] >= 97 /\ charCodeAt[c] <= 122
IsLetter(c) == IsUpper(c) \/ IsLower(c)
IsQuote(c) == c \in {"'", "\""}
\* [A-Z0-9_] under the /i flag
IsLabelChar(c) == IsLetter(c) \/ IsDigit(c) \/ c = "_"

\* String.prototype.toUpperCase
upperChar(c) == IF IsLower(c) THEN substring(AsciiLow, charCodeAt[c] - 32 - 31, charCodeAt[c] - 32 - 31) ELSE c

RECURSIVE toUpperCase(_)
toUpperCase(s) == IF Len(s) = 0 THEN "" ELSE upperChar(substring(s, 1, 1)) \o toUpperCase(substring(s, 2, Len(s)))

\* String.prototype.indexOf(pat, from), positions counted from 1, 0 when absent.
indexOf(s, pat, from) ==
  LET K == {k \in from..(Len(s) - Len(pat) + 1) : substring(s, k, k + Len(pat) - 1) = pat}
  IN IF K = {} THEN 0 ELSE Min(K)

\* String.prototype.trim
trim(s) ==
  LET K == {k \in 1..Len(s) : ~IsSpace(At(s, k))}
  IN IF K = {} THEN "" ELSE substring(s, Min(K), Max(K))

\* null and the empty string are both falsy in `if (label)`, `if (error)`,
\* `if (!lineString)`; the model writes null as the empty string.
null == ""

(***************************************************************************)
(* Bit operations on 32-bit two's complement integers (JS & and |).        *)
(***************************************************************************)
RECURSIVE AndNat(_, _)
AndNat(a, b) == IF a = 0 \/ b = 0 THEN 0 ELSE (a % 2) * (b % 2) + 2 * AndNat(a \div 2, b \div 2)

RECURSIVE OrNat(_, _)
OrNat(a, b) == IF a = 0 THEN b ELSE IF b = 0 THEN a
               ELSE (IF a % 2 = 1 \/ b % 2 = 1 THEN 1 ELSE 0) + 2 * OrNat(a \div 2, b \div 2)

\* The low 31 bits of the two's complement representation of a.
Low31(a) == IF a >= 0 THEN a ELSE (a + 2147483647) + 1

\* a & mask for a mask in 0..2^31-1
BitAnd(a, mask) == AndNat(Low31(a), mask)

\* a | b for non-negative a, b
BitOr(a, b) == OrNat(a, b)

(***************************************************************************)
(* removeComments: truncate at the first "//".                             *)
(***************************************************************************)
\* variant of removeComments that passes over a marker inside double quotes
removeCommentsQuoted(line) ==
  LET outside == {k \in 1..(Len(line) - 1) :
                    /\ At(line, k) = "/" /\ At(line, k + 1) = "/"
                    /\ Cardinality({q \in 1..(k - 1) : At(line, q) = "\""}) % 2 = 0}
  IN IF outside # {} THEN substring(line, 1, Min(outside) - 1) ELSE line

removeComments(line) ==
  LET commentIndex == indexOf(line, "//", 1)
  IN IF commentIndex # 0 THEN substring(line, 1, commentIndex - 1) ELSE line

(***************************************************************************)
(* "Convert to uppercase except quoted strings" (the same code in pass1    *)
(* and pass2): every match of /(['"])(.*?)\1/g is replaced by a            *)
(* placeholder, the line is upper-cased, and each placeholder is replaced  *)
(* back with String.prototype.replace(string, string).                     *)
(***************************************************************************)
placeholder(idx) == "__QUOTED_" \o ToString(idx) \o "__"

\* lineString.replace(/(['"])(.*?)\1/g, ...): scanning from p, with the
\* text produced so far and the quoted parts collected so far.
RECURSIVE hideQuoted(_, _, _, _)
hideQuoted(s, p, tempLine, quotedParts) ==
  IF p > Len(s) THEN [tempLine |-> tempLine, quotedParts |-> quotedParts]
  ELSE LET c == At(s, p)
           q == IF IsQuote(c) THEN indexOf(s, c, p + 1) ELSE 0
       IN IF q # 0
          THEN hideQuoted(s, q + 1, tempLine \o placeholder(Len(quotedParts)),
                          Append(quotedParts, substring(s, p, q)))
          ELSE hideQuoted(s, p + 1, tempLine \o c, quotedParts)

\* GetSubstitution of String.prototype.replace for a string pattern (no
\* captures): in the replacement text $$ is $, $& is the matched text and
\* $' the text after the match (the fourth pattern, $ followed by a
\* backtick, needs a character outside the modelled alphabet).
RECURSIVE GetSubstitution(_, _, _, _, _)
GetSubstitution(matched, str, position, replacement, k) ==
  IF k > Len(replacement) THEN ""
  ELSE LET c == At(replacement, k)
           d == At(replacement, k + 1)
       IN IF c = "$" /\ d = "$"
          THEN "$" \o GetSubstitution(matched, str, position, replacement, k + 2)
          ELSE IF c = "$" /\ d = "&"
          THEN matched \o GetSubstitution(matched, str, position, replacement, k + 2)
          ELSE IF c = "$" /\ d = "'"
          THEN substring(str, position + Len(matched), Len(str)) \o GetSubstitution(matched, str, position, replacement, k + 2)
          ELSE c \o GetSubstitution(matched, str, position, replacement, k + 1)

\* str.replace(pattern, replacement) with both arguments strings: only the
\* first occurrence is replaced.
replaceString(str, pattern, replacement) ==
  LET position == indexOf(str, pattern, 1)
  IN IF position = 0 THEN str
     ELSE substring(str, 1, position - 1)
          \o GetSubstitution(pattern, str, position, replacement, 1)
          \o substring(str, position + Len(pattern), Len(str))

\* quotedParts.forEach((quoted, idx) => tempLine = tempLine.replace(...))
RECURSIVE restoreQuoted(_, _, _)
restoreQuoted(tempLine, quotedParts, idx) ==
  IF idx >= Len(quotedParts) THEN tempLine
  ELSE restoreQuoted(replaceString(tempLine, placeholder(idx), quotedParts[idx + 1]),
                     quotedParts, idx + 1)

upperCaseExceptQuoted(lineString) ==
  LET h == hideQuoted(lineString, 1, "", <<>>)
  IN restoreQuoted(toUpperCase(h.tempLine), h.quotedParts, 0)

\* The head of one loop iteration of pass1 / pass2: the line as it is handed
\* to processPass1Line / processPass2Line, or null for a skipped line.
normalizeLine(raw) ==
  LET lineString == trim(removeComments(raw))
  IN IF lineString = null THEN null ELSE upperCaseExceptQuoted(lineString)

(***************************************************************************)
(* extractLabel                                                            *)
(***************************************************************************)
\* The number of consecutive characters of s, from position p on, that
\* satisfy the class (a greedy character-class repetition).
RECURSIVE runLabelChars(_, _)
runLabelChars(s, p) == IF IsLabelChar(At(s, p)) THEN 1 + runLabelChars(s, p + 1) ELSE 0

RECURSIVE runSpaces(_, _)
runSpaces(s, p) == IF IsSpace(At(s, p)) THEN 1 + runSpaces(s, p + 1) ELSE 0

RECURSIVE runNonSpaces(_, _)
runNonSpaces(s, p) == IF p <= Len(s) /\ ~IsSpace(At(s, p)) THEN 1 + runNonSpaces(s, p + 1) ELSE 0

\* variant of labelMatch that lets the label have nine characters
labelMatchNine(line, n, w) ==
  [found |-> /\ (IsLetter(At(line, 2)) \/ At(line, 2) = "_")
             /\ n <= 9
             /\ w >= 1
             /\ (2 + n + w <= Len(line) \/ w >= 2),
   label |-> substring(line, 2, 1 + n),
   remaining |-> IF 2 + n + w <= Len(line)
                 THEN substring(line, 2 + n + w, Len(line))
                 ELSE substring(line, 1 + n + w, 1 + n + w)]

\* The outcome of /^:([A-Z_][A-Z0-9_]{0,7})\s+(.+)$/i on a line that starts
\* with ":", given the number n of label characters after the colon and the
\* number w of white space characters after those.  When the white space
\* runs to the end of the line, \s+ gives its last character back to (.+).
labelMatch(line, n, w) ==
  [found |-> /\ (IsLetter(At(line, 2)) \/ At(line, 2) = "_")
             /\ n <= 8
             /\ w >= 1
             /\ (2 + n + w <= Len(line) \/ w >= 2),
   label |-> substring(line, 2, 1 + n),
   remaining |-> IF 2 + n + w <= Len(line)
                 THEN substring(line, 2 + n + w, Len(line))
                 ELSE substring(line, 1 + n + w, 1 + n + w)]

\* variant of labelError that tests the length before the first character
labelErrorLengthFirst(line, n) ==
  IF (IsLetter(At(line, 2)) \/ At(line, 2) = "_") /\ n >= 9 THEN "Label exceeds 8 characters"
  ELSE IF IsDigit(At(line, 2)) THEN "Label cannot start with a number after colon"
  ELSE IF At(line, 2) = "_" THEN "Label cannot start with underscore after colon"
  ELSE IF \A k \in 1..Len(line) : ~IsSpace(At(line, k)) THEN "Label cannot stand by itself on the line"
  ELSE "Invalid label format"

\* The error checks that follow a failed match.
labelError(line, n) ==
  IF IsDigit(At(line, 2)) THEN "Label cannot start with a number after colon"
  ELSE IF At(line, 2) = "_" THEN "Label cannot start with underscore after colon"
  ELSE IF (IsLetter(At(line, 2)) \/ At(line, 2) = "_") /\ n >= 9 THEN "Label exceeds 8 characters"
  ELSE IF \A k \in 1..Len(line) : ~IsSpace(At(line, k)) THEN "Label cannot stand by itself on the line"
  ELSE "Invalid label format"

labelResult(line, n, match) ==
  IF ~match.found
  THEN [label |-> null, remaining |-> line, error |-> labelError(line, n)]
  ELSE [label |-> toUpperCase(match.label), remaining |-> match.remaining, error |-> null]

labelAfterColon(line, n) == labelResult(line, n, labelMatch(line, n, runSpaces(line, 2 + n)))

extractLabel(line) ==
  IF At(line, 1) # ":" THEN [label |-> null, remaining |-> line, error |-> null]
  ELSE labelAfterColon(line, runLabelChars(line, 2))

(***************************************************************************)
(* lineString.match(/("[^"]*"|'[^']*'|\S+)/g) || []                        *)
(***************************************************************************)
RECURSIVE matchParts(_, _, _)
matchParts(s, p, parts) ==
  IF p > Len(s) THEN parts
  ELSE LET c == At(s, p)
           q == IF IsQuote(c) THEN indexOf(s, c, p + 1) ELSE 0
           e == p + runNonSpaces(s, p) - 1
       IN IF IsSpace(c) THEN matchParts(s, p + 1, parts)
          ELSE IF q # 0 THEN matchParts(s, q + 1, Append(parts, substring(s, p, q)))
          ELSE matchParts(s, e + 1, Append(parts, substring(s, p, e)))

(***************************************************************************)
(* transformText: the list of byte values `result`.                        *)
(***************************************************************************)
RECURSIVE transformScan(_, _)
transformScan(text, i) ==
  IF i > Len(text) THEN <<>>
  ELSE LET c == charCodeAt[At(text, i)]
       IN IF c >= 64 /\ c <= 90 /\ i + 1 <= Len(text) /\ At(text, i + 1) = "^"
          THEN <<c - 64>> \o transformScan(text, i + 2)
          ELSE IF At(text, i) = "^" /\ i + 1 <= Len(text) /\ At(text, i + 1) = "^"
          THEN <<charCodeAt["^"]>> \o transformScan(text, i + 2)
          ELSE <<c>> \o transformScan(text, i + 1)

\* variant of setLastBit that sets bit 7 of every byte
setLastBitEvery(result) ==
  [k \in 1..Len(result) |-> BitOr(result[k], 128)]

\* result[result.length - 1] |= 0x80, when result is not empty
setLastBit(result) ==
  IF Len(result) > 0
  THEN [result EXCEPT ![Len(result)] = BitOr(result[Len(result)], 128)]
  ELSE result

\* String.fromCharCode(...result): one 16-bit code unit per value
fromCharCodes(result) ==
  [transformed |-> [k \in 1..Len(result) |-> result[k] % 65536], length |-> Len(result)]

transformText(text) == fromCharCodes(setLastBit(transformScan(text, 1)))

(***************************************************************************)
(* evaluateExpression.  The code rewrites 0X.. and 0B.. literals to        *)
(* decimal text and hands the text to the JavaScript evaluator in strict   *)
(* mode.  The evaluator is modelled for the documented expression          *)
(* language: decimal literals, unary + and -, the operators + - * / %,     *)
(* and parentheses.  JavaScript numbers are modelled as exact fractions    *)
(* n/d (d = 0 stands for a non-finite value); operand texts that use any   *)
(* other JavaScript syntax are not drawn by the model.                     *)
(***************************************************************************)
IsHexDigit(c) == IsDigit(c) \/ (c \in Chars /\ charCodeAt[upperChar(c)] >= 65 /\ charCodeAt[upperChar(c)] <= 70)
IsBinDigit(c) == c \in {"0", "1"}

digitValue(c) == IF IsDigit(c) THEN charCodeAt[c] - 48 ELSE charCodeAt[upperChar(c)] - 55

RECURSIVE runHexDigits(_, _)
runHexDigits(s, p) == IF IsHexDigit(At(s, p)) THEN 1 + runHexDigits(s, p + 1) ELSE 0

RECURSIVE runBinDigits(_, _)
runBinDigits(s, p) == IF IsBinDigit(At(s, p)) THEN 1 + runBinDigits(s, p + 1) ELSE 0

RECURSIVE runDigits(_, _)
runDigits(s, p) == IF IsDigit(At(s, p)) THEN 1 + runDigits(s, p + 1) ELSE 0

\* parseInt(digits, radix) for a text made of digits of that radix
RECURSIVE parseDigits(_, _, _)
parseDigits(digits, radix, acc) ==
  IF Len(digits) = 0 THEN acc
  ELSE parseDigits(substring(digits, 2, Len(digits)), radix, acc * radix + digitValue(substring(digits, 1, 1)))

\* normalized.replace(/0[xX]([0-9A-Fa-f]+)/g, (_, hex) => String(parseInt(hex, 16)))
RECURSIVE replaceHex(_, _)
replaceHex(s, p) ==
  IF p > Len(s) THEN ""
  ELSE LET n == runHexDigits(s, p + 2)
       IN IF At(s, p) = "0" /\ At(s, p + 1) \in {"x", "X"} /\ n >= 1
          THEN ToString(parseDigits(substring(s, p + 2, p + 1 + n), 16, 0)) \o replaceHex(s, p + 2 + n)
          ELSE At(s, p) \o replaceHex(s, p + 1)

\* normalized.replace(/0[bB]([01]+)/g, (_, bin) => String(parseInt(bin, 2)))
RECURSIVE replaceBin(_, _)
replaceBin(s, p) ==
  IF p > Len(s) THEN ""
  ELSE LET n == runBinDigits(s, p + 2)
       IN IF At(s, p) = "0" /\ At(s, p + 1) \in {"b", "B"} /\ n >= 1
          THEN ToString(parseDigits(substring(s, p + 2, p + 1 + n), 2, 0)) \o replaceBin(s, p + 2 + n)
          ELSE At(s, p) \o replaceBin(s, p + 1)

RECURSIVE gcd(_, _)
gcd(a, b) == IF b = 0 THEN a ELSE gcd(b, a % b)

abs(a) == IF a < 0 THEN -a ELSE a

\* the fraction n/d in lowest terms with d > 0; d = 0 is kept as non-finite
frac(n, d) ==
  IF d = 0 THEN [n |-> 0, d |-> 0]
  ELSE LET g == gcd(abs(n), abs(d))
           sg == IF d < 0 THEN -1 ELSE 1
       IN [n |-> sg * (n \div g), d |-> sg * (d \div g)]

\* Math.trunc of n/d (d > 0)
truncFrac(v) == IF v.n >= 0 THEN v.n \div v.d ELSE -((-v.n) \div v.d)

jsAdd(a, b) == IF a.d = 0 \/ b.d = 0 THEN frac(0, 0) ELSE frac(a.n * b.d + b.n * a.d, a.d * b.d)
jsSub(a, b) == IF a.d = 0 \/ b.d = 0 THEN frac(0, 0) ELSE frac(a.n * b.d - b.n * a.d, a.d * b.d)
jsMul(a, b) == IF a.d = 0 \/ b.d = 0 THEN frac(0, 0) ELSE frac(a.n * b.n, a.d * b.d)
\* a / b is the exact quotient (a fraction when inexact), non-finite for b = 0
jsDiv(a, b) == IF a.d = 0 \/ b.d = 0 \/ b.n = 0 THEN frac(0, 0) ELSE frac(a.n * b.d, a.d * b.n)
\* a % b keeps the sign of the dividend
jsRem(a, b) ==
  IF a.d = 0 \/ b.d = 0 \/ b.n = 0 THEN frac(0, 0)
  ELSE jsSub(a, jsMul(b, frac(truncFrac(jsDiv(a, b)), 1)))

syntaxError == [ok |-> FALSE, v |-> frac(0, 1), pos |-> 0]

\* The binary operators of one precedence level: 0 additive, 1 multiplicative.
operatorsAt(level) == IF level = 0 THEN {"+", "-"} ELSE {"*", "/", "%"}

applyOperator(op, a, b) ==
  CASE op = "+" -> jsAdd(a, b)
    [] op = "-" -> jsSub(a, b)
    [] op = "*" -> jsMul(a, b)
    [] op = "/" -> jsDiv(a, b)
    [] op = "%" -> jsRem(a, b)

\* left op right, for parse results
combine(op, left, right) ==
  IF ~right.ok THEN syntaxError
  ELSE [ok |-> TRUE, v |-> applyOperator(op, left.v, right.v), pos |-> right.pos]

\* a unary + or - applied to a parse result
applySign(sign, r) ==
  IF ~r.ok THEN syntaxError
  ELSE IF sign = "-" THEN [r EXCEPT !.v = jsSub(frac(0, 1), r.v)] ELSE r

\* the closing parenthesis after a parenthesised expression
closeParen(s, r) ==
  IF r.ok /\ At(s, r.pos) = ")" THEN [r EXCEPT !.pos = r.pos + 1] ELSE syntaxError

\* a decimal literal of n digits at p
decimalLiteral(s, p, n) ==
  IF n = 0 THEN syntaxError
  \* strict mode: a decimal literal of several digits cannot start with 0
  ELSE IF n > 1 /\ At(s, p) = "0" THEN syntaxError
  ELSE [ok |-> TRUE, v |-> frac(parseDigits(substring(s, p, p + n - 1), 10, 0), 1), pos |-> p + n]

\* parseLevel(s, p, level): the expression of precedence level `level` that
\* starts at p (level 2: unary and primary expressions); restLevel continues
\* a left operand with the operators of its level, left to right.
RECURSIVE parseLevel(_, _, _)
RECURSIVE restLevel(_, _, _)

parseLevel(s, p, level) ==
  IF level = 2
  THEN IF At(s, p) \in {"+", "-"} THEN applySign(At(s, p), parseLevel(s, p + 1, 2))
       ELSE IF At(s, p) = "(" THEN closeParen(s, parseLevel(s, p + 1, 0))
       ELSE decimalLiteral(s, p, runDigits(s, p))
  ELSE restLevel(s, parseLevel(s, p, level + 1), level)

restLevel(s, left, level) ==
  IF ~left.ok THEN syntaxError
  ELSE IF At(s, left.pos) \in operatorsAt(level)
  THEN restLevel(s, combine(At(s, left.pos), left, parseLevel(s, left.pos + 1, level + 1)), level)
  ELSE left

\* the parse result r must cover the whole text
wholeText(body, r) == IF r.ok /\ r.pos = Len(body) + 1 THEN r ELSE syntaxError

\* new Function(`'use strict'; return (${normalized})`)() : the value, or a
\* throw (SyntaxError) when the text is not an expression
jsEvaluate(normalized) ==
  \* ++ and -- are single tokens; applied to a number they are a SyntaxError
  IF indexOf(normalized, "++", 1) # 0 \/ indexOf(normalized, "--", 1) # 0 THEN syntaxError
  ELSE wholeText("(" \o normalized \o ")", parseLevel("(" \o normalized \o ")", 1, 0))

\* The result of evaluateExpression: error = null and the value, or the
\* message of the Error it throws.
integerResult(expr, r) ==
  IF r.ok /\ r.v.d = 1   \* Number.isInteger(result)
  THEN [error |-> null, value |-> r.v.n]
  ELSE [error |-> "Invalid expression: " \o expr, value |-> 0]

evaluateExpression(expr) == integerResult(expr, jsEvaluate(replaceBin(replaceHex(trim(expr), 1), 1)))

\* parseInt(text, 8): leading white space, an optional sign, then the longest
\* run of octal digits; NaN (isNaN |-> TRUE) when there is no such digit.
RECURSIVE runOctDigits(_, _)
runOctDigits(s, p) == IF IsDigit(At(s, p)) /\ digitValue(At(s, p)) <= 7 THEN 1 + runOctDigits(s, p + 1) ELSE 0

parseInt8(text) ==
  LET p0 == 1 + runSpaces(text, 1)
      signed == At(text, p0) \in {"+", "-"}
      p == IF signed THEN p0 + 1 ELSE p0
      n == runOctDigits(text, p)
      m == parseDigits(substring(text, p, p + n - 1), 8, 0)
  IN IF n = 0 THEN [isNaN |-> TRUE, value |-> 0]
     ELSE [isNaN |-> FALSE, value |-> IF At(text, p0) = "-" THEN -m ELSE m]

(***************************************************************************)
(* The regular expressions of the PC and BC cases.                         *)
(***************************************************************************)
\* lineString.match(/PC\s+(['"])(.*?)\1/i): the leftmost match; text is
\* group 2.
matchPCAt(s, p) ==
  LET w == runSpaces(s, p + 2)
      c == At(s, p + 2 + w)
      q == IF IsQuote(c) THEN indexOf(s, c, p + 3 + w) ELSE 0
  IN [found |-> toUpperCase(substring(s, p, p + 1)) = "PC" /\ w >= 1 /\ q # 0,
      text |-> substring(s, p + 3 + w, q - 1)]

matchPC(s) ==
  LET P == {p \in 1..Len(s) : matchPCAt(s, p).found}
  IN IF P = {} THEN [found |-> FALSE, text |-> ""] ELSE matchPCAt(s, Min(P))

\* lineString.match(/BC\s+(\S+)\s*,\s*(['"])(.*?)\2/i): the leftmost match,
\* (\S+) as long as the rest of the pattern allows; label is group 1, text
\* is group 3.  The pass 1 pattern is the same without the first group.
matchBCWith(s, a, n) ==
  LET w2 == runSpaces(s, a + n)
      comma == a + n + w2
      w3 == runSpaces(s, comma + 1)
      c == At(s, comma + 1 + w3)
      q == IF IsQuote(c) THEN indexOf(s, c, comma + 2 + w3) ELSE 0
  IN [found |-> At(s, comma) = "," /\ q # 0,
      label |-> substring(s, a, a + n - 1),
      text |-> substring(s, comma + 2 + w3, q - 1)]

matchBCAt(s, p) ==
  LET w == runSpaces(s, p + 2)
      a == p + 2 + w
      N == {n \in 1..runNonSpaces(s, a) : matchBCWith(s, a, n).found}
  IN IF toUpperCase(substring(s, p, p + 1)) = "BC" /\ w >= 1 /\ N # {}
     THEN matchBCWith(s, a, Max(N))
     ELSE [found |-> FALSE, label |-> "", text |-> ""]

matchBC(s) ==
  LET P == {p \in 1..Len(s) : matchBCAt(s, p).found}
  IN IF P = {} THEN [found |-> FALSE, label |-> "", text |-> ""] ELSE matchBCAt(s, Min(P))

(***************************************************************************)
(* processPass1Line.  The result carries the label dictionary as the call  *)
(* leaves it (the code updates the caller's object in place).              *)
(***************************************************************************)
\* return { newOrgValue: ..., error: null } and the error returns / throws
pass1Ok(newOrg, dict) == [newOrgValue |-> newOrg, error |-> null, labelDictionary |-> dict]
pass1Fail(msg, orgValue, dict) == [newOrgValue |-> orgValue, error |-> msg, labelDictionary |-> dict]

\* case 'NO': case 'DS': ... case 'FE': of processPass1Line
pass1SingleByte ==
  {"NO", "DS", "SP", "DT", "RD", "RE", "SB", "RB", "FV", "SV", "GS", "RS",
   "GO", "NE", "AD", "SU", "MP", "DV", "CP", "NX", "LS", "PN", "PQ", "PT",
   "NL", "GL", "IL", "MT", "XQ", "WS", "US", "RT", "FS", "FE"}

\* pass1Org without the comparison against the current counter
pass1OrgBackward(newOrg, orgValue, dict) ==
  IF newOrg.error # null THEN pass1Fail(newOrg.error, orgValue, dict)
  ELSE pass1Ok(newOrg.value, dict)

\* case '.ORG', after evaluateExpression(parts[1]) returned or threw newOrg
pass1Org(newOrg, orgValue, dict) ==
  IF newOrg.error # null THEN pass1Fail(newOrg.error, orgValue, dict)
  ELSE IF newOrg.value < orgValue
  THEN pass1Fail(".ORG value cannot be less than current org_value", orgValue, dict)
  ELSE pass1Ok(newOrg.value, dict)

\* case 'SX', after digit = parseInt(parts[1], 8)
pass1SX(digit, orgValue, dict) ==
  IF digit.isNaN \/ digit.value < 0 \/ digit.value > 7
  THEN pass1Fail("SX requires a valid octal digit (0-7)", orgValue, dict)
  ELSE pass1Ok(orgValue + 1, dict)

\* pass1Load sizing LN like LB
pass1LoadTwoBytes(value, size, orgValue, dict) ==
  IF value.error # null THEN pass1Fail(value.error, orgValue, dict)
  ELSE pass1Ok(orgValue + 2, dict)

\* cases 'LB' (size 2) and 'LN' (size 3), after evaluateExpression(parts[1])
pass1Load(value, size, orgValue, dict) ==
  IF value.error # null THEN pass1Fail(value.error, orgValue, dict)
  ELSE pass1Ok(orgValue + size, dict)

\* cases 'PC' and 'BC', after the match of the text pattern
pass1Text(textMatch, message, orgValue, dict) ==
  IF ~textMatch.found THEN pass1Fail(message, orgValue, dict)
  ELSE pass1Ok(orgValue + 1 + transformText(textMatch.text).length, dict)

\* the switch of processPass1Line, inside its try / catch
pass1Instruction(lineString, parts, instruction, orgValue, dict) ==
  CASE instruction = ".ORG" ->
         IF Len(parts) < 2 THEN pass1Fail(".ORG requires an expression", orgValue, dict)
         ELSE pass1Org(evaluateExpression(parts[2]), orgValue, dict)
    [] instruction = "SX" ->
         IF Len(parts) < 2 THEN pass1Fail("SX requires an octal digit", orgValue, dict)
         ELSE pass1SX(parseInt8(parts[2]), orgValue, dict)
    [] instruction \in pass1SingleByte -> pass1Ok(orgValue + 1, dict)
    [] instruction = "LB" ->
         IF Len(parts) < 2 THEN pass1Fail("LB requires an expression", orgValue, dict)
         ELSE pass1Load(evaluateExpression(parts[2]), 2, orgValue, dict)
    [] instruction = "LN" ->
         IF Len(parts) < 2 THEN pass1Fail("LN requires an expression", orgValue, dict)
         ELSE pass1Load(evaluateExpression(parts[2]), 3, orgValue, dict)
    [] instruction \in {"JS", "J"} ->
         IF Len(parts) < 2 THEN pass1Fail(instruction \o " requires a target", orgValue, dict)
         ELSE pass1Ok(orgValue + 2, dict)
    [] instruction = "BR" ->
         IF Len(parts) < 2 THEN pass1Fail("BR requires a relative branch target", orgValue, dict)
         ELSE pass1Ok(orgValue + 1, dict)
    [] instruction \in {"BV", "BN", "BE"} ->
         IF Len(parts) < 2 THEN pass1Fail(instruction \o " requires a forward branch target", orgValue, dict)
         ELSE pass1Ok(orgValue + 1, dict)
    [] instruction = "PC" ->
         IF Len(parts) < 2 THEN pass1Fail("PC requires a text string", orgValue, dict)
         ELSE pass1Text(matchPC(lineString), "PC requires quoted text", orgValue, dict)
    [] instruction = "BC" ->
         IF Len(parts) < 3 THEN pass1Fail("BC requires a forward branch target and text", orgValue, dict)
         ELSE pass1Text(matchBC(lineString), "BC requires a forward branch target and quoted text", orgValue, dict)
    [] OTHER -> pass1Fail("Unknown instruction or directive: " \o instruction, orgValue, dict)

\* processPass1Line from "Validate that line is not empty after label
\* removal" on: lineString is the text after the label, dict the dictionary
\* with the label of the line entered.
pass1Parts(lineString, parts, orgValue, dict) ==
  IF trim(lineString) = "" THEN pass1Fail("Instruction missing after label", orgValue, dict)
  ELSE IF Len(parts) = 0 THEN pass1Fail("Empty line after processing", orgValue, dict)
  ELSE pass1Instruction(lineString, parts, toUpperCase(parts[1]), orgValue, dict)

\* pass1Label without the check for an existing entry
pass1LabelOverwrite(x, lineNumber, orgValue, labelDictionary) ==
  pass1Parts(x.remaining, matchParts(x.remaining, 1, <<>>), orgValue,
             (x.label :> [line_number |-> lineNumber, org_value |-> orgValue]) @@ labelDictionary)

\* if (label) { ... } of processPass1Line, for the label x.label
pass1Label(x, lineNumber, orgValue, labelDictionary) ==
  IF x.label \in DOMAIN labelDictionary
  THEN pass1Fail("Duplicate label: " \o x.label, orgValue, labelDictionary)
  ELSE pass1Parts(x.remaining, matchParts(x.remaining, 1, <<>>), orgValue,
                  (x.label :> [line_number |-> lineNumber, org_value |-> orgValue]) @@ labelDictionary)

\* processPass1Line after x = extractLabel(lineString)
pass1Extracted(x, lineString, lineNumber, orgValue, labelDictionary) ==
  IF x.error # null THEN pass1Fail(x.error, orgValue, labelDictionary)
  ELSE IF x.label # null THEN pass1Label(x, lineNumber, orgValue, labelDictionary)
  ELSE pass1Parts(lineString, matchParts(lineString, 1, <<>>), orgValue, labelDictionary)

processPass1Line(lineString, lineNumber, orgValue, labelDictionary) ==
  pass1Extracted(extractLabel(lineString), lineString, lineNumber, orgValue, labelDictionary)

(***************************************************************************)
(* Pass 2: machine code generation.                                        *)
(***************************************************************************)
ImageSize == 65536

\* machineCode[index] = value on a Uint8Array of ImageSize bytes: the value
\* is stored modulo 256, and an index outside the array stores nothing.
\* The image is kept as the function from the addresses assigned so far to
\* their bytes; every other address holds the initial 0.
store(machineCode, index, value) ==
  IF index >= 0 /\ index < ImageSize
  THEN (index :> (value % 256)) @@ machineCode
  ELSE machineCode

byteAt(machineCode, index) == IF index \in DOMAIN machineCode THEN machineCode[index] ELSE 0

\* LSB and MSB: the result, and the message of the Error its range check
\* throws (null when it does not throw).
LSB(value) ==
  [result |-> BitAnd(value, 255),
   error |-> IF BitAnd(value, 255) < 0 \/ BitAnd(value, 255) > 255
             THEN "LSB value out of range: " \o ToString(BitAnd(value, 255)) ELSE null]

\* MSB shifting without masking first
MSBUnmasked(value) ==
  [result |-> value \div 256,
   error |-> IF value \div 256 < 0 \/ value \div 256 > 255
             THEN "MSB value out of range: " \o ToString(value \div 256) ELSE null]

MSB(value) ==
  [result |-> BitAnd(value, 65280) \div 256,
   error |-> IF BitAnd(value, 65280) \div 256 < 0 \/ BitAnd(value, 65280) \div 256 > 255
             THEN "MSB value out of range: " \o ToString(BitAnd(value, 65280) \div 256) ELSE null]

\* case 'NO': machineCode[orgValue] = 0x08; ... of processPass2Line
pass2Opcode ==
  [NO |-> 8, DS |-> 11, SP |-> 12, DT |-> 13, RD |-> 14, RE |-> 15,
   SB |-> 16, RB |-> 17, FV |-> 18, SV |-> 19, GS |-> 20, RS |-> 21,
   GO |-> 22, NE |-> 23, AD |-> 24, SU |-> 25, MP |-> 26, DV |-> 27,
   CP |-> 28, NX |-> 29, LS |-> 31, PN |-> 32, PQ |-> 33, PT |-> 34,
   NL |-> 35, FS |-> 37, FE |-> 38, GL |-> 39, IL |-> 42, MT |-> 43,
   XQ |-> 44, WS |-> 45, US |-> 46, RT |-> 47]

pass2Ok(newOrg, mc) == [newOrgValue |-> newOrg, error |-> null, machineCode |-> mc]
pass2Fail(msg, orgValue, mc) == [newOrgValue |-> orgValue, error |-> msg, machineCode |-> mc]

\* case '.ORG', after evaluateExpression(parts[1]) returned or threw newOrg
\* variant of pass2Org that leaves the counter where it is
pass2OrgIgnored(newOrg, orgValue, mc) ==
  IF newOrg.error # null THEN pass2Fail(newOrg.error, orgValue, mc)
  ELSE pass2Ok(orgValue, mc)

\* variant of pass2Org without the comparison against the current counter
pass2OrgBackward(newOrg, orgValue, mc) ==
  IF newOrg.error # null THEN pass2Fail(newOrg.error, orgValue, mc)
  ELSE pass2Ok(newOrg.value, mc)

pass2Org(newOrg, orgValue, mc) ==
  IF newOrg.error # null THEN pass2Fail(newOrg.error, orgValue, mc)
  ELSE IF newOrg.value < orgValue
  THEN pass2Fail(".ORG value cannot be less than current org_value", orgValue, mc)
  ELSE pass2Ok(newOrg.value, mc)

\* case 'SX', after digit = parseInt(parts[1], 8)
pass2SX(digit, orgValue, mc) ==
  IF digit.isNaN \/ digit.value < 0 \/ digit.value > 7
  THEN pass2Fail("SX requires a valid octal digit (0-7)", orgValue, mc)
  ELSE pass2Ok(orgValue + 1, store(mc, orgValue, 0 + digit.value))

\* case 'LB', after value = evaluateExpression(parts[1])
pass2LB(value, orgValue, mc) ==
  IF value.error # null THEN pass2Fail(value.error, orgValue, mc)
  ELSE IF LSB(value.value).error # null
  THEN pass2Fail(LSB(value.value).error, orgValue, store(mc, orgValue, 9))
  ELSE pass2Ok(orgValue + 2, store(store(mc, orgValue, 9), orgValue + 1, LSB(value.value).result))

\* case 'LN', after value = evaluateExpression(parts[1])
pass2LN(value, orgValue, mc) ==
  IF value.error # null THEN pass2Fail(value.error, orgValue, mc)
  ELSE IF MSB(value.value).error # null
  THEN pass2Fail(MSB(value.value).error, orgValue, store(mc, orgValue, 10))
  ELSE IF LSB(value.value).error # null
  THEN pass2Fail(LSB(value.value).error, orgValue,
                 store(store(mc, orgValue, 10), orgValue + 1, MSB(value.value).result))
  ELSE pass2Ok(orgValue + 3,
               store(store(store(mc, orgValue, 10), orgValue + 1, MSB(value.value).result),
                     orgValue + 2, LSB(value.value).result))

\* pass2JumpEncode accepting the address 2048
pass2JumpEncodeWide(targetValue, base, orgValue, mc) ==
  IF targetValue < 0 \/ targetValue > 2048
  THEN pass2Fail("Target value out of range (0-2047): " \o ToString(targetValue), orgValue, mc)
  ELSE pass2Ok(orgValue + 2,
               store(store(mc, orgValue, base + BitAnd(MSB(targetValue).result, 7)),
                     orgValue + 1, LSB(targetValue).result))

\* cases 'JS' (base 0x30) and 'J' (base 0x38), from the range check of
\* targetValue on
\* variant of pass2JumpEncode that writes the first byte before its range check
pass2JumpEncodeEager(targetValue, base, orgValue, mc) ==
  IF targetValue < 0 \/ targetValue > 2047
  THEN pass2Fail("Target value out of range (0-2047): " \o ToString(targetValue), orgValue,
                 store(mc, orgValue, base + BitAnd(MSB(targetValue).result, 7)))
  ELSE pass2Ok(orgValue + 2,
               store(store(mc, orgValue, base + BitAnd(MSB(targetValue).result, 7)),
                     orgValue + 1, LSB(targetValue).result))

pass2JumpEncode(targetValue, base, orgValue, mc) ==
  IF targetValue < 0 \/ targetValue > 2047
  THEN pass2Fail("Target value out of range (0-2047): " \o ToString(targetValue), orgValue, mc)
  ELSE IF MSB(targetValue).error # null THEN pass2Fail(MSB(targetValue).error, orgValue, mc)
  ELSE IF LSB(targetValue).error # null
  THEN pass2Fail(LSB(targetValue).error, orgValue,
                 store(mc, orgValue, base + BitAnd(MSB(targetValue).result, 7)))
  ELSE pass2Ok(orgValue + 2,
               store(store(mc, orgValue, base + BitAnd(MSB(targetValue).result, 7)),
                     orgValue + 1, LSB(targetValue).result))

\* cases 'JS' and 'J', from the lookup of targetLabel on
pass2Jump(targetLabel, base, orgValue, dict, mc) ==
  IF targetLabel # "*" /\ targetLabel \notin DOMAIN dict
  THEN pass2Fail("Target label not found: " \o targetLabel, orgValue, mc)
  ELSE pass2JumpEncode(IF targetLabel = "*" THEN 0 ELSE dict[targetLabel].org_value,
                       base, orgValue, mc)

\* forwardRange rejecting the boundary value 31
forwardRangeStrict(branchValue) ==
  IF branchValue >= 31
  THEN [error |-> "Forward branch value out of range (0-31): " \o ToString(branchValue), branchValue |-> branchValue]
  ELSE [error |-> null, branchValue |-> branchValue]

\* The range check of the forward branch value of BV, BN, BE and BC.
forwardRange(branchValue) ==
  IF branchValue > 31
  THEN [error |-> "Forward branch value out of range (0-31): " \o ToString(branchValue), branchValue |-> branchValue]
  ELSE [error |-> null, branchValue |-> branchValue]

\* The forward branch value of BV, BN, BE and BC: the value, or the message
\* of the Error thrown.
forwardBranch(branchLabel, orgValue, dict) ==
  IF branchLabel = "*" THEN [error |-> null, branchValue |-> 0]
  ELSE IF branchLabel \notin DOMAIN dict
  THEN [error |-> "Branch label not found: " \o branchLabel, branchValue |-> 0]
  ELSE forwardRange(dict[branchLabel].org_value - orgValue - 1)

\* The range check of the relative branch value of BR.
relativeRange(branchValue) ==
  IF branchValue > 63 \/ branchValue < 0
  THEN [error |-> "Relative branch value out of range (0-63): " \o ToString(branchValue), branchValue |-> branchValue]
  ELSE [error |-> null, branchValue |-> branchValue]

\* relativeValue with the single bias 31 of ASSEMBLER_KNOWLEDGE.md
relativeValueBias31(labelOrg, orgValue) == labelOrg - orgValue + 31

\* "Two cases based on whether label org >= current org"
relativeValue(labelOrg, orgValue) ==
  IF labelOrg >= orgValue THEN labelOrg - orgValue + 32 ELSE labelOrg - orgValue + 31

\* The relative branch value of BR.
relativeBranch(branchLabel, orgValue, dict) ==
  IF branchLabel = "*" THEN [error |-> null, branchValue |-> 0]
  ELSE IF branchLabel \notin DOMAIN dict
  THEN [error |-> "Branch label not found: " \o branchLabel, branchValue |-> 0]
  ELSE relativeRange(relativeValue(dict[branchLabel].org_value, orgValue))

\* cases 'BR', 'BV', 'BN', 'BE' after the branch value b:
\* machineCode[orgValue] = base + (mask & (branchValue & 0xFF))
pass2Branch(b, base, mask, orgValue, mc) ==
  IF b.error # null THEN pass2Fail(b.error, orgValue, mc)
  ELSE pass2Ok(orgValue + 1, store(mc, orgValue, base + BitAnd(BitAnd(b.branchValue, 255), mask)))

\* for (i = 0; i < transformed.length; i++) machineCode[currentOrg++] = transformed.charCodeAt(i)
RECURSIVE storeText(_, _, _, _)
storeText(machineCode, currentOrg, transformed, k) ==
  IF k > Len(transformed) THEN machineCode
  ELSE storeText(store(machineCode, currentOrg, transformed[k]), currentOrg + 1, transformed, k + 1)

\* cases 'PC' and 'BC': the first byte, then the transformed text
pass2StoreText(first, transformed, orgValue, mc) ==
  pass2Ok(orgValue + 1 + Len(transformed),
          storeText(store(mc, orgValue, first), orgValue + 1, transformed, 1))

\* case 'PC', after the match of the text pattern
pass2PC(textMatch, orgValue, mc) ==
  IF ~textMatch.found THEN pass2Fail("PC requires quoted text", orgValue, mc)
  ELSE pass2StoreText(36, transformText(textMatch.text).transformed, orgValue, mc)

\* case 'BC', after the branch value b
pass2BCBranch(b, text, orgValue, mc) ==
  IF b.error # null THEN pass2Fail(b.error, orgValue, mc)
  ELSE pass2StoreText(128 + BitAnd(BitAnd(b.branchValue, 255), 31),
                      transformText(text).transformed, orgValue, mc)

\* case 'BC', after the match of the text pattern
pass2BC(textMatch, orgValue, dict, mc) ==
  IF ~textMatch.found
  THEN pass2Fail("BC requires a forward branch target and quoted text", orgValue, mc)
  ELSE pass2BCBranch(forwardBranch(toUpperCase(textMatch.label), orgValue, dict),
                     textMatch.text, orgValue, mc)

\* the base opcode of a forward branch instruction
forwardBase(instruction) ==
  IF instruction = "BV" THEN 160 ELSE IF instruction = "BN" THEN 192 ELSE 224

\* the switch of processPass2Line, inside its try / catch
pass2Instruction(lineString, parts, instruction, orgValue, dict, mc) ==
  CASE instruction = ".ORG" ->
         IF Len(parts) < 2 THEN pass2Fail(".ORG requires an expression", orgValue, mc)
         ELSE pass2Org(evaluateExpression(parts[2]), orgValue, mc)
    [] instruction = "SX" ->
         IF Len(parts) < 2 THEN pass2Fail("SX requires an octal digit", orgValue, mc)
         ELSE pass2SX(parseInt8(parts[2]), orgValue, mc)
    [] instruction \in DOMAIN pass2Opcode ->
         pass2Ok(orgValue + 1, store(mc, orgValue, pass2Opcode[instruction]))
    [] instruction = "LB" ->
         IF Len(parts) < 2 THEN pass2Fail("LB requires an expression", orgValue, mc)
         ELSE pass2LB(evaluateExpression(parts[2]), orgValue, mc)
    [] instruction = "LN" ->
         IF Len(parts) < 2 THEN pass2Fail("LN requires an expression", orgValue, mc)
         ELSE pass2LN(evaluateExpression(parts[2]), orgValue, mc)
    [] instruction = "JS" ->
         IF Len(parts) < 2 THEN pass2Fail("JS requires a target", orgValue, mc)
         ELSE pass2Jump(toUpperCase(parts[2]), 48, orgValue, dict, mc)
    [] instruction = "J" ->
         IF Len(parts) < 2 THEN pass2Fail("J requires a target", orgValue, mc)
         ELSE pass2Jump(toUpperCase(parts[2]), 56, orgValue, dict, mc)
    [] instruction = "BR" ->
         IF Len(parts) < 2 THEN pass2Fail("BR requires a relative branch target", orgValue, mc)
         ELSE pass2Branch(relativeBranch(toUpperCase(parts[2]), orgValue, dict), 64, 63, orgValue, mc)
    [] instruction \in {"BV", "BN", "BE"} ->
         IF Len(parts) < 2 THEN pass2Fail(instruction \o " requires a forward branch target", orgValue, mc)
         ELSE pass2Branch(forwardBranch(toUpperCase(parts[2]), orgValue, dict),
                          forwardBase(instruction), 31, orgValue, mc)
    [] instruction = "PC" ->
         IF Len(parts) < 2 THEN pass2Fail("PC requires a text string", orgValue, mc)
         ELSE pass2PC(matchPC(lineString), orgValue, mc)
    [] instruction = "BC" ->
         IF Len(parts) < 3 THEN pass2Fail("BC requires a forward branch target and text", orgValue, mc)
         ELSE pass2BC(matchBC(lineString), orgValue, dict, mc)
    [] OTHER -> pass2Fail("Unknown instruction or directive: " \o instruction, orgValue, mc)

\* processPass2Line from "Validate that line is not empty after label
\* removal" on: lineString is the text after the label.
pass2Parts(lineString, parts, orgValue, dict, mc) ==
  IF trim(lineString) = "" THEN pass2Fail("Instruction missing after label", orgValue, mc)
  ELSE IF Len(parts) = 0 THEN pass2Fail("Empty line after processing", orgValue, mc)
  ELSE pass2Instruction(lineString, parts, toUpperCase(parts[1]), orgValue, dict, mc)

\* processPass2Line after x = extractLabel(lineString)
\* variant of pass2Extracted that does not look the label of the line up
pass2ExtractedUnchecked(x, lineString, orgValue, labelDictionary, machineCode) ==
  IF x.error # null THEN pass2Fail(x.error, orgValue, machineCode)
  ELSE IF x.label # null
  THEN pass2Parts(x.remaining, matchParts(x.remaining, 1, <<>>), orgValue, labelDictionary, machineCode)
  ELSE pass2Parts(lineString, matchParts(lineString, 1, <<>>), orgValue, labelDictionary, machineCode)

pass2Extracted(x, lineString, orgValue, labelDictionary, machineCode) ==
  IF x.error # null THEN pass2Fail(x.error, orgValue, machineCode)
  ELSE IF x.label # null /\ x.label \notin DOMAIN labelDictionary
  THEN pass2Fail("Label not found in dictionary: " \o x.label, orgValue, machineCode)
  ELSE IF x.label # null
  THEN pass2Parts(x.remaining, matchParts(x.remaining, 1, <<>>), orgValue, labelDictionary, machineCode)
  ELSE pass2Parts(lineString, matchParts(lineString, 1, <<>>), orgValue, labelDictionary, machineCode)

processPass2Line(lineString, lineNumber, orgValue, labelDictionary, machineCode) ==
  pass2Extracted(extractLabel(lineString), lineString, orgValue, labelDictionary, machineCode)

(***************************************************************************)
(* The two passes as a state machine.  pass1(assemblyCode) runs its loop   *)
(* one line per step and returns; pass2 is then called on the same text    *)
(* with the dictionary pass1 returned.                                     *)
(***************************************************************************)
VARIABLES
  assemblyCode,     \* the source text, as the list assemblyCode.split('\n')
  pc,               \* "pass1", "pass1Done", "pass2" or "pass2Done"
  i,                \* the loop variable of the running pass
  orgValue,         \* the address counter of the running pass
  labelDictionary,  \* pass1: the dictionary being built; pass2: its argument
  errors,           \* the diagnostics of the running pass
  errorCount,
  machineCode,      \* the image of pass2 (addresses assigned so far)
  pass1Result,      \* what pass1 returned, or noResult
  pass2Result,      \* what pass2 returned, or noResult
  errorLines,       \* the line numbers the editor highlights (useState([]))
  reader            \* the FileReader of the last file chosen, or noReader

vars == <<assemblyCode, pc, i, orgValue, labelDictionary, errors, errorCount,
          machineCode, pass1Result, pass2Result, errorLines, reader>>

noResult == [errorCount |-> -1]

noReader == [readyState |-> "EMPTY"]

\* The longest source text drawn, in lines.
MaxLines == 3

\* The source texts of at most MaxLines lines over a set of lines.
sourcesOver(lineSet) == UNION {[1..n -> lineSet] : n \in 1..MaxLines}

\* errorEntry numbering the lines from 0, by the loop index
errorEntryIndex(lineNumber, error) == "Line " \o ToString(lineNumber - 1) \o ": " \o error

\* errors.push(`Line ${lineNumber}: ${error}`)
errorEntry(lineNumber, error) == "Line " \o ToString(lineNumber) \o ": " \o error

\* The state at the start of pass1 on a text drawn from lineSet.
initOver(lineSet) ==
  /\ assemblyCode \in sourcesOver(lineSet)
  /\ pc = "pass1"
  /\ i = 0
  /\ orgValue = 0
  /\ labelDictionary = <<>>
  /\ errors = <<>>
  /\ errorCount = 0
  /\ machineCode = <<>>
  /\ pass1Result = noResult
  /\ pass2Result = noResult
  /\ errorLines = <<>>
  /\ reader = noReader

\* if (error) { errors.push(...); errorCount++ } else { orgValue = newOrgValue }
recordOutcome(lineNumber, r) ==
  IF r.error # null
  THEN /\ errors' = Append(errors, errorEntry(lineNumber, r.error))
       /\ errorCount' = errorCount + 1
       /\ UNCHANGED orgValue
  ELSE /\ orgValue' = r.newOrgValue
       /\ UNCHANGED <<errors, errorCount>>

\* The body of the loop of pass1 for the normalized line lineString.
pass1Body(lineNumber, lineString, r) ==
  IF lineString = null   \* if (!lineString) continue
  THEN UNCHANGED <<orgValue, labelDictionary, errors, errorCount>>
  ELSE /\ labelDictionary' = r.labelDictionary
       /\ recordOutcome(lineNumber, r)

\* One iteration of the loop of pass1.
Pass1Line ==
  /\ pc = "pass1"
  /\ i < Len(assemblyCode)
  /\ \E lineString \in {normalizeLine(assemblyCode[i + 1])} :
       \E r \in {processPass1Line(lineString, i + 1, orgValue, labelDictionary)} :
         pass1Body(i + 1, lineString, r)
  /\ i' = i + 1
  /\ UNCHANGED <<assemblyCode, pc, machineCode, pass1Result, pass2Result, errorLines, reader>>

\* error.match(/line (\d+)/): the leftmost "line " followed by a digit, in
\* lower case as the pattern has no i flag; value is parseInt of group 1,
\* the longest run of digits there
matchLineNumberAt(error, K) ==
  IF K = {} THEN [matched |-> FALSE, value |-> 0]
  ELSE [matched |-> TRUE,
        value |-> parseDigits(substring(error, Min(K) + 5, Min(K) + 4 + runDigits(error, Min(K) + 5)),
                              10, 0)]

matchLineNumber(error) ==
  matchLineNumberAt(error, {k \in 1..Len(error) :
                             substring(error, k, k + 4) = "line " /\ IsDigit(At(error, k + 5))})

\* result.errors.forEach(error => { const match = ...; if (match)
\* errorLineNumbers.push(parseInt(match[1])) })
RECURSIVE errorLineNumbers(_)
errorLineNumbers(list) ==
  IF list = <<>> THEN <<>>
  ELSE (IF matchLineNumber(Head(list)).matched
        THEN <<matchLineNumber(Head(list)).value>> ELSE <<>>) \o errorLineNumbers(Tail(list))

\* The return of pass1 to handlePass1, and handlePass1 from there to its
\* end: onPass1Complete(result) and onErrorLinesChange(errorLineNumbers).
Pass1Return ==
  /\ pc = "pass1"
  /\ i >= Len(assemblyCode)
  /\ pass1Result' = [labelDictionary |-> labelDictionary, errorCount |-> errorCount,
                     errors |-> errors, finalOrgValue |-> orgValue]
  /\ errorLines' = errorLineNumbers(errors)
  /\ pc' = "pass1Done"
  /\ UNCHANGED <<assemblyCode, i, orgValue, labelDictionary, errors, errorCount,
                 machineCode, pass2Result, reader>>

\* The call pass2(assemblyCode, pass1Result.labelDictionary) up to its loop.
Pass2Call ==
  /\ pc = "pass1Done"
  /\ labelDictionary' = pass1Result.labelDictionary
  /\ machineCode' = <<>>
  /\ errors' = <<>>
  /\ errorCount' = 0
  /\ orgValue' = 0
  /\ i' = 0
  /\ pc' = "pass2"
  /\ UNCHANGED <<assemblyCode, pass1Result, pass2Result, errorLines, reader>>

\* The body of the loop of pass2 for the normalized line lineString.
pass2Body(lineNumber, lineString, r) ==
  IF lineString = null   \* if (!lineString) continue
  THEN UNCHANGED <<orgValue, machineCode, errors, errorCount>>
  ELSE /\ machineCode' = r.machineCode
       /\ recordOutcome(lineNumber, r)

\* One iteration of the loop of pass2.
Pass2Line ==
  /\ pc = "pass2"
  /\ i < Len(assemblyCode)
  /\ \E lineString \in {normalizeLine(assemblyCode[i + 1])} :
       \E r \in {processPass2Line(lineString, i + 1, orgValue, labelDictionary, machineCode)} :
         pass2Body(i + 1, lineString, r)
  /\ i' = i + 1
  /\ UNCHANGED <<assemblyCode, pc, labelDictionary, pass1Result, pass2Result, errorLines,
                 reader>>

\* The return of pass2.
Pass2Return ==
  /\ pc = "pass2"
  /\ i >= Len(assemblyCode)
  /\ pass2Result' = [machineCode |-> machineCode, errorCount |-> errorCount,
                     errors |-> errors, finalOrgValue |-> orgValue]
  /\ pc' = "pass2Done"
  /\ UNCHANGED <<assemblyCode, i, orgValue, labelDictionary, errors, errorCount,
                 machineCode, pass1Result, errorLines, reader>>

Next == Pass1Line \/ Pass1Return \/ Pass2Call \/ Pass2Line \/ Pass2Return

(***************************************************************************)
(* The source lines drawn.                                                 *)
(***************************************************************************)
\* a mix of blank, comment-only, labelled, well-formed and ill-formed lines
GeneralLines ==
  {"", "  // note", "NO", ":L NO // first", ":l ds", "BOGUS", ".ORG 5",
   "lb 300", "LN", "LN 5", "j l", "SX 3", "BR L", "BV L", "PC \"M^Q\"", "BC L, 'AB'"}

Init == initOver(GeneralLines)

Spec == Init /\ [][Next]_vars

\* .ORG forward, backward, to the same address, and with operands that fail
OrgLines ==
  {".ORG 100", ".ORG 50", ".org 100 // again", ".ORG 0X40", ".ORG -1", ".ORG",
   ".ORG 7/2", ".ORG 99+1", ":A .ORG 50", "NO", "LN 1", ""}

SpecOrg == initOver(OrgLines) /\ [][Next]_vars

\* jumps to labels at addresses with and without bits 8 to 10, at 2047 and
\* at 2048, to an undefined label, and at the end of the image
JumpLines ==
  {":START NO", "NO", "J START", "JS start", ".ORG 2047", ".ORG 2048", ".ORG 0X2A5",
   ":FAR NO", "J FAR", "JS FAR", "J NONE", "J", "JS *", ".ORG 65535"}

SpecJump == initOver(JumpLines) /\ [][Next]_vars

\* relative branches backward and forward, at and past both ends of the range
RelLines ==
  {":A NO", "BR A", "br b", ":B NO", ":A BR A", ".ORG 30", ".ORG 31", ".ORG 32",
   ".ORG 33", "BR *", "BR NONE", "BR", ".ORG 65536"}

SpecRel == initOver(RelLines) /\ [][Next]_vars

\* forward branches to a label 31 and 32 bytes ahead, at the branch itself
\* and behind it
FwdLines ==
  {"BV L", "BN L", "be l", "BC L, \"X\"", ".ORG 32", ".ORG 33", ":L NO", ":L BV L",
   "NO", "BV *", "BV NONE", "BE", ".ORG 65536"}

SpecFwd == initOver(FwdLines) /\ [][Next]_vars

\* loads of values below 0, above 255 and above 65535
LoadLines ==
  {"LB -1", "LB 256+3", "lb 0B101", "LB 0", "LN 0X1234", "LN -2", "LN 65536+5",
   "LN 255", "LN -32768", "LB", "LN 7/2", ".ORG 65535", "NO"}

SpecLoad == initOver(LoadLines) /\ [][Next]_vars

\* texts with control sequences, carets, lower case, and characters that
\* String.replace reads as patterns
TextLines ==
  {"PC \"M^Q\"", "PC \"A$$B\"", "PC 'AB'", "PC \"^^\"", "pc \"ab\"", "PC \"D^^J\"",
   "PC \"\"", "PC", "PC \"A//B\"", ":T PC \"HI\"", ".ORG 65535", "NO"}

SpecText == initOver(TextLines) /\ [][Next]_vars

(***************************************************************************)
(* The line a step of the loop processes, as the code sees it.             *)
(***************************************************************************)
\* the running pass is inside its loop
inLoop == pc \in {"pass1", "pass2"} /\ i < Len(assemblyCode)

\* a step that is one iteration of the loop of the running pass
lineDone == inLoop /\ i' = i + 1 /\ pc' = pc

\* lineNumber = i + 1 of the iteration
thisNumber == i + 1

\* What the code reads off a normalized line: the result of extractLabel, the
\* text processed after the label, its parts, and
\* instruction = parts[0].toUpperCase().
parsedParts(line, x, text, parts) ==
  [line |-> line, error |-> x.error, label |-> x.label, text |-> text, parts |-> parts,
   mnemonic |-> IF Len(parts) = 0 THEN "" ELSE toUpperCase(parts[1])]

parsedText(line, x, text) == parsedParts(line, x, text, matchParts(text, 1, <<>>))

parsedLabel(line, x) == parsedText(line, x, IF x.label # null THEN x.remaining ELSE line)

parsed(line) == parsedLabel(line, extractLabel(line))

\* the line of the iteration, normalized and read (a one-element set, to
\* quantify over)
thisLine == {parsed(normalizeLine(assemblyCode[i + 1]))}

\* what processPass1Line / processPass2Line returns for the line t
thisResult(t) ==
  IF pc = "pass1"
  THEN processPass1Line(t.line, thisNumber, orgValue, labelDictionary)
  ELSE processPass2Line(t.line, thisNumber, orgValue, labelDictionary, machineCode)

\* the step adds exactly one diagnostic, at the end of the list
reported ==
  /\ Len(errors') = Len(errors) + 1
  /\ SubSeq(errors', 1, Len(errors)) = errors
  /\ errorCount' = errorCount + 1

\* the step adds no diagnostic
silent == errors' = errors /\ errorCount' = errorCount

\* the last diagnostic after the step
lastError == errors'[Len(errors')]

\* "Line N: " of a diagnostic
linePrefix(n) == "Line " \o ToString(n) \o ": "

(***************************************************************************)
(* C1: the address counter and the size of an instruction.                 *)
(***************************************************************************)
\* The counter after the line when it is accepted: the "Pass 1 Size" column
\* of the instruction table added to the counter, the operand for .ORG.
sizedOrg(t) ==
  CASE t.mnemonic = ".ORG" -> evaluateExpression(t.parts[2]).value
    [] t.mnemonic = "LB" -> orgValue + 2
    [] t.mnemonic = "LN" -> orgValue + 3
    [] t.mnemonic \in {"JS", "J"} -> orgValue + 2
    [] t.mnemonic = "PC" -> orgValue + 1 + transformText(matchPC(t.text).text).length
    [] t.mnemonic = "BC" -> orgValue + 1 + transformText(matchBC(t.text).text).length
    [] OTHER -> orgValue + 1

\* C1: in pass1 and in pass2, a step over a non-blank line either adds no
\* diagnostic and sets the address counter to its value before the line plus
\* the byte size of the instruction (to the operand, for .ORG), or adds one
\* diagnostic and leaves the counter unchanged; a step over a blank or
\* comment-only line changes neither the counter nor the diagnostics.
C1_CounterAdvance ==
  [][lineDone =>
       \A t \in thisLine :
         IF t.line = null THEN orgValue' = orgValue /\ silent
         ELSE IF Len(errors') > Len(errors) THEN reported /\ orgValue' = orgValue
         ELSE silent /\ orgValue' = sizedOrg(t)]_vars

\* A run of both passes over a comment-only line, a two-byte instruction
\* and a line with a diagnostic: the counter ends at 2 in both.
C1_Witness ==
  /\ pc = "pass2Done"
  /\ assemblyCode = <<"  // note", "lb 300", "BOGUS">>
  /\ pass1Result.finalOrgValue = 2 /\ pass1Result.errorCount = 1
  /\ pass2Result.finalOrgValue = 2 /\ pass2Result.errorCount = 1

(***************************************************************************)
(* C2: the label dictionary is write-once.                                 *)
(***************************************************************************)
\* C2: an entry of the label dictionary never changes once it exists; in
\* pass1 a line that defines a label not yet in the dictionary enters it
\* with the number of the line and the address counter at the line, and a
\* line that defines a label already there adds the diagnostic "Duplicate
\* label" and leaves the dictionary and the counter unchanged.
C2_WriteOnce ==
  [][/\ \A k \in DOMAIN labelDictionary :
          k \in DOMAIN labelDictionary' /\ labelDictionary'[k] = labelDictionary[k]
     /\ lineDone /\ pc = "pass1" =>
          \A t \in thisLine :
            (t.line # null /\ t.error = null /\ t.label # null) =>
              IF t.label \in DOMAIN labelDictionary
              THEN /\ reported
                   /\ lastError = linePrefix(thisNumber) \o "Duplicate label: " \o t.label
                   /\ labelDictionary' = labelDictionary
                   /\ orgValue' = orgValue
              ELSE labelDictionary' =
                     (t.label :> [line_number |-> thisNumber, org_value |-> orgValue])
                       @@ labelDictionary]_vars

\* pass1 has met a second definition of L, written in lower case, and the
\* entry of the first one stands.
C2_Witness ==
  /\ pc = "pass1" /\ i = 3
  /\ assemblyCode = <<"NO", ":L NO // first", ":l ds">>
  /\ labelDictionary = ("L" :> [line_number |-> 2, org_value |-> 1])
  /\ errors = <<"Line 3: Duplicate label: L">>
  /\ orgValue = 2

(***************************************************************************)
(* C3: every line is visited and every diagnostic is collected.            *)
(***************************************************************************)
\* the line number a diagnostic names
entryLine(entry) ==
  CHOOSE n \in 0..Len(assemblyCode) : substring(entry, 1, Len(linePrefix(n))) = linePrefix(n)

\* C3: each pass steps through every line and returns only after the last
\* one; a line whose processing fails adds exactly the entry "Line N: message"
\* with N its 1-based position in the source, blank lines counted, and any
\* other line adds none; the entries are in increasing line order and
\* errorCount is their number.
C3_EveryLine ==
  [][/\ pc \in {"pass1", "pass2"} =>
          IF i < Len(assemblyCode)
          THEN /\ lineDone
               /\ \A t \in thisLine : \A r \in {thisResult(t)} :
                    IF t.line # null /\ r.error # null
                    THEN errors' = Append(errors, linePrefix(thisNumber) \o r.error)
                    ELSE errors' = errors
          ELSE /\ pc' = pc \o "Done"
               /\ i = Len(assemblyCode)
               /\ IF pc = "pass1" THEN pass1Result'.errors = errors /\ pass1Result'.errorCount = Len(errors)
                  ELSE pass2Result'.errors = errors /\ pass2Result'.errorCount = Len(errors)
     /\ errorCount' = Len(errors')
     /\ \A a, b \in DOMAIN errors' : a < b => entryLine(errors'[a]) < entryLine(errors'[b])]_vars

\* Both passes went past the failing first line and the blank second line
\* and reported the third line under its number 3.
C3_Witness ==
  /\ pc = "pass2Done"
  /\ assemblyCode = <<"BOGUS", "", "LN">>
  /\ pass1Result.errors = <<"Line 1: Unknown instruction or directive: BOGUS",
                            "Line 3: LN requires an expression">>
  /\ pass2Result.errors = pass1Result.errors
  /\ pass2Result.errorCount = 2

(***************************************************************************)
(* The instruction of a line is reached when the label of the line passes  *)
(* (C2 for pass1, the lookup of pass2) and parts are left after it.        *)
(***************************************************************************)
reachesSwitch(t) ==
  /\ t.line # null /\ t.error = null
  /\ t.label # null =>
       IF pc = "pass1" THEN t.label \notin DOMAIN labelDictionary
       ELSE t.label \in DOMAIN labelDictionary
  /\ trim(t.text) # "" /\ Len(t.parts) > 0

\* the step leaves the image as it is
noWrite == machineCode' = machineCode

\* the step assigns exactly the bytes of the sequence bytes to the addresses
\* from the counter on
written(bytes) ==
  machineCode' = [a \in DOMAIN machineCode \cup (orgValue..(orgValue + Len(bytes) - 1)) |->
                    IF a >= orgValue /\ a < orgValue + Len(bytes)
                    THEN bytes[a - orgValue + 1] ELSE machineCode[a]]

\* the step assembles the line into bytes: no diagnostic, the bytes written
\* at the counter, the counter past them.  Stated for an instruction that
\* lies inside the image of ImageSize bytes; what the code does with a byte
\* past the end of the image is the subject of C15.
assembled(bytes) ==
  orgValue + Len(bytes) <= ImageSize =>
    silent /\ written(bytes) /\ orgValue' = orgValue + Len(bytes)

\* the step rejects the line: one diagnostic, no byte, the counter unchanged
rejected == reported /\ noWrite /\ orgValue' = orgValue

(***************************************************************************)
(* C4: .ORG never moves the address counter backward.                      *)
(***************************************************************************)
\* C4: within a pass the address counter never decreases; .ORG with an
\* operand of value less than the counter adds a diagnostic and leaves the
\* counter unchanged, .ORG with a value at or above the counter sets the
\* counter to that value; after ".ORG 100", ".ORG 50" leaves it at 100.
C4_OrgForwardOnly ==
  [][/\ (pc \in {"pass1", "pass2"} /\ pc' = pc) => orgValue' >= orgValue
     /\ lineDone =>
          \A t \in thisLine :
            (reachesSwitch(t) /\ t.mnemonic = ".ORG" /\ Len(t.parts) >= 2) =>
              \A e \in {evaluateExpression(t.parts[2])} :
                e.error = null =>
                  IF e.value < orgValue THEN reported /\ orgValue' = orgValue
                  ELSE silent /\ orgValue' = e.value
     /\ (lineDone /\ i = 1 /\ assemblyCode[1] = ".ORG 100" /\ assemblyCode[2] = ".ORG 50") =>
          orgValue' = 100]_vars

\* pass2 is past ".ORG 100" and ".ORG 50": one diagnostic, the counter at 100.
C4_Witness ==
  /\ pc = "pass2" /\ i = 2
  /\ assemblyCode = <<".ORG 100", ".ORG 50", "NO">>
  /\ orgValue = 100
  /\ errors = <<"Line 2: .ORG value cannot be less than current org_value">>

(***************************************************************************)
(* C5: JS and J.                                                           *)
(***************************************************************************)
\* the two bytes of a jump to the address a
jumpBytes(mnemonic, a) ==
  <<(IF mnemonic = "JS" THEN 48 ELSE 56) + ((a \div 256) % 8), a % 256>>

\* C5: in pass2, JS or J to a label recorded at an address a in 0..2047
\* writes, at the counter, 0x30 (JS) or 0x38 (J) OR bits 8 to 10 of a and then
\* a AND 0xFF, and advances the counter by 2; a label that is not in the
\* dictionary, or is recorded above 2047, adds a diagnostic, writes nothing
\* and leaves the counter unchanged.  ":START NO", "NO", "J START" gives the
\* bytes 0x08, 0x08, 0x38, 0x00 and the final address 4.  (The operand "*" is
\* the marker, not a label.)
C5_Jump ==
  [][/\ (lineDone /\ pc = "pass2") =>
          \A t \in thisLine :
            (reachesSwitch(t) /\ t.mnemonic \in {"JS", "J"} /\ Len(t.parts) >= 2) =>
              \A target \in {toUpperCase(t.parts[2])} \ {"*"} :
                IF target \in DOMAIN labelDictionary
                   /\ labelDictionary[target].org_value \in 0..2047
                THEN assembled(jumpBytes(t.mnemonic, labelDictionary[target].org_value))
                ELSE rejected
     /\ (pc' = "pass2Done" /\ assemblyCode = <<":START NO", "NO", "J START">>) =>
          /\ pass2Result'.machineCode = (0 :> 8) @@ (1 :> 8) @@ (2 :> 56) @@ (3 :> 0)
          /\ pass2Result'.finalOrgValue = 4]_vars

\* pass2 has assembled JS to a label at 0x2A5: 0x30 OR 2, then 0xA5.
C5_Witness ==
  /\ pc = "pass2Done"
  /\ assemblyCode = <<".ORG 0X2A5", ":FAR NO", "JS FAR">>
  /\ pass2Result.machineCode = (677 :> 8) @@ (678 :> 50) @@ (679 :> 165)
  /\ pass2Result.finalOrgValue = 680 /\ pass2Result.errorCount = 0

(***************************************************************************)
(* C6: BR.                                                                 *)
(***************************************************************************)
\* the value of a relative branch at the counter to a label at labelOrg
relValue(labelOrg) ==
  IF labelOrg < orgValue THEN labelOrg - orgValue + 31 ELSE labelOrg - orgValue + 32

fwdBase(mnemonic) ==
  CASE mnemonic = "BV" -> 160 [] mnemonic = "BN" -> 192 [] mnemonic = "BE" -> 224

\* the label a forward branch line names, when the dictionary holds it
fwdLabel(t) ==
  IF t.mnemonic \in {"BV", "BN", "BE"} /\ Len(t.parts) >= 2
  THEN {toUpperCase(t.parts[2])} \cap DOMAIN labelDictionary
  ELSE IF t.mnemonic = "BC" /\ Len(t.parts) >= 3 /\ matchBC(t.text).found
  THEN {toUpperCase(matchBC(t.text).label)} \cap DOMAIN labelDictionary
  ELSE {}

\* C7: in pass2, BV, BN or BE to a label recorded at label_org has the value
\* v = label_org - counter - 1; v up to the boundary 31 (and not below 0)
\* writes the byte 0xA0 (BV), 0xC0 (BN) or 0xE0 (BE) OR (v AND 0x1F) at the
\* counter and advances the counter by 1; v of 32 or more adds a diagnostic,
\* writes nothing and leaves the counter unchanged.
C7_ForwardBranch ==
  [][(lineDone /\ pc = "pass2") =>
       \A t \in thisLine :
         (reachesSwitch(t) /\ t.mnemonic \in {"BV", "BN", "BE"}) =>
           \A label \in fwdLabel(t) :
             \A v \in {labelDictionary[label].org_value - orgValue - 1} :
               /\ v \in 0..31 => assembled(<<fwdBase(t.mnemonic) + (v % 32)>>)
               /\ v >= 32 => rejected]_vars

\* pass2 has assembled BV to a label 32 bytes after the branch: v = 31.
C7_Witness ==
  /\ pc = "pass2Done"
  /\ assemblyCode = <<"BV L", ".ORG 32", ":L NO">>
  /\ pass2Result.machineCode = (0 :> 191) @@ (32 :> 8)
  /\ pass2Result.errorCount = 0

\* C8: in pass2, a forward branch (BV, BN, BE, or the branch of BC) whose
\* value label_org - counter - 1 is negative adds a diagnostic, writes no
\* byte and leaves the counter unchanged.
C8_NegativeForward ==
  [][(lineDone /\ pc = "pass2") =>
       \A t \in thisLine :
         reachesSwitch(t) =>
           \A label \in fwdLabel(t) :
             labelDictionary[label].org_value - orgValue - 1 < 0 => rejected]_vars

\* pass2 has accepted BV to the label of the line before it: v = -2 is
\* encoded as 0xA0 + (0x1F AND 0xFE) with no diagnostic.
C8_Witness ==
  /\ pc = "pass2Done"
  /\ assemblyCode = <<":L NO", "BV L">>
  /\ pass2Result.machineCode = (0 :> 8) @@ (1 :> 190)
  /\ pass2Result.finalOrgValue = 2 /\ pass2Result.errorCount = 0

(***************************************************************************)
(* C9: LB and LN.                                                          *)
(***************************************************************************)
\* C9: in pass2, LB with an operand of integer value v writes 0x09 and
\* v AND 0xFF and advances the counter by 2; LN writes 0x0A, the high byte
\* (v AND 0xFF00) shifted right by 8 and the low byte v AND 0xFF, and
\* advances the counter by 3; for negative v these are the bytes of the
\* 16-bit two's complement of v; every byte of the image is in 0..255.
C9_Load ==
  [][/\ (lineDone /\ pc = "pass2") =>
          \A t \in thisLine :
            (reachesSwitch(t) /\ t.mnemonic \in {"LB", "LN"} /\ Len(t.parts) >= 2) =>
              \A e \in {evaluateExpression(t.parts[2])} :
                e.error = null =>
                  IF t.mnemonic = "LB"
                  THEN assembled(<<9, e.value % 256>>)
                  ELSE assembled(<<10, (e.value % 65536) \div 256, e.value % 256>>)
     /\ \A a \in DOMAIN machineCode' : machineCode'[a] \in 0..255]_vars

\* pass2 has assembled LN of -2 into 0x0A 0xFF 0xFE and LB of 259 into
\* 0x09 0x03.
C9_Witness ==
  /\ pc = "pass2Done"
  /\ assemblyCode = <<"LN -2", "LB 256+3">>
  /\ pass2Result.machineCode = (0 :> 10) @@ (1 :> 255) @@ (2 :> 254) @@ (3 :> 9) @@ (4 :> 3)
  /\ pass2Result.finalOrgValue = 5 /\ pass2Result.errorCount = 0

(***************************************************************************)
(* C10: PC.                                                                *)
(***************************************************************************)
\* the source line of the iteration without its comment, trimmed, when it
\* is PC "text" with a non-empty text: the text between the quotes
sourceText ==
  LET source == trim(removeComments(assemblyCode[i + 1]))
  IN IF toUpperCase(substring(source, 1, 2)) = "PC" /\ matchPC(source).found
        /\ matchPC(source).text # ""
     THEN {matchPC(source).text} ELSE {}

\* C10: for a line PC "text" with a non-empty text whose transformed text
\* has n bytes, pass1 advances the counter by 1 + n, and pass2 writes 0x24 at
\* the counter and the n transformed bytes after it and advances the
\* counter by 1 + n.
C10_PrintText ==
  [][lineDone =>
       \A text \in sourceText :
         \A bytes \in {<<36>> \o transformText(text).transformed} :
           IF pc = "pass1" THEN silent /\ orgValue' = orgValue + Len(bytes)
           ELSE assembled(bytes)]_vars

\* pass2 has assembled PC "A$$B" into 0x24 and three text bytes, A, $ and
\* B with the last bit set, where the text has four characters.
C10_Witness ==
  /\ pc = "pass2Done"
  /\ assemblyCode = <<"PC \"A$$B\"">>
  /\ pass2Result.machineCode = (0 :> 36) @@ (1 :> 65) @@ (2 :> 36) @@ (3 :> 194)
  /\ pass2Result.finalOrgValue = 4 /\ pass2Result.errorCount = 0

(***************************************************************************)
(* C11, C13: BC and the empty text.                                        *)
(***************************************************************************)
\* BC with the text directly after the comma and after a space, with a
\* text holding a space, with empty texts, and PC with an empty text
BCLines ==
  {"BC L,\"X\"", "BC L, \"X\"", "bc l ,'M^Q'", "BC L,\"A B\"", ":L NO", ".ORG 32",
   ".ORG 34", "NO", "PC \"\"", "PC ''", "BC L, \"\"", "BC L,''", "BC NONE, \"X\""}

SpecBC == initOver(BCLines) /\ [][Next]_vars

\* the label and the text of a line BC fwd,"text", blanks allowed around the
\* comma
sourceBC(t) ==
  IF t.line # null /\ t.error = null /\ t.label = null /\ t.mnemonic = "BC"
  THEN {m \in {matchBC(t.line)} : m.found}
  ELSE {}

\* C11: a line BC fwd,"text" with a non-empty text of transformed length n
\* is accepted by pass1, which advances the counter by 1 + n, and, when fwd
\* is a label of the dictionary with forward value v in 0..31, by pass2,
\* which writes 0x80 OR (v AND 0x1F) and the n transformed bytes and
\* advances the counter by 1 + n.
C11_BranchOnCharacter ==
  [][lineDone =>
       \A t \in thisLine : \A m \in sourceBC(t) :
         m.text # "" =>
           \A bytes \in {transformText(m.text).transformed} :
             IF pc = "pass1" THEN silent /\ orgValue' = orgValue + 1 + Len(bytes)
             ELSE \A label \in {toUpperCase(m.label)} \cap DOMAIN labelDictionary :
                    \A v \in {labelDictionary[label].org_value - orgValue - 1} :
                      v \in 0..31 => assembled(<<128 + (v % 32)>> \o bytes)]_vars

\* Both passes have refused BC L,"X", written as in the instruction table,
\* although pass2 finds L in the dictionary with the forward value 0.
C11_Witness ==
  /\ pc = "pass2Done"
  /\ assemblyCode = <<"BC L,\"X\"", "NO", ":L NO">>
  /\ pass1Result.errors = <<"Line 1: BC requires a forward branch target and text">>
  /\ pass1Result.labelDictionary["L"].org_value = 1
  /\ pass2Result.errors = pass1Result.errors
  /\ pass2Result.machineCode = (0 :> 8 @@ 1 :> 8)

\* the line is PC or BC with nothing between the quotes
emptyText(t) ==
  \/ t.mnemonic = "PC" /\ Len(t.parts) >= 2
     /\ matchPC(t.line).found /\ matchPC(t.line).text = ""
  \/ t.mnemonic = "BC" /\ Len(t.parts) >= 2
     /\ matchBC(t.line).found /\ matchBC(t.line).text = ""

\* C13: PC "" and BC fwd, "" add a diagnostic in pass1 and in pass2 and
\* leave the counter unchanged, and pass2 writes no byte for the line.
C13_EmptyText ==
  [][lineDone =>
       \A t \in thisLine :
         (reachesSwitch(t) /\ emptyText(t)) =>
           IF pc = "pass1" THEN reported /\ orgValue' = orgValue ELSE rejected]_vars

\* Both passes have accepted PC "": pass1 counted one byte and pass2 wrote
\* 0x24 alone.
C13_Witness ==
  /\ pc = "pass2Done"
  /\ assemblyCode = <<"PC \"\"">>
  /\ pass1Result.errorCount = 0 /\ pass1Result.finalOrgValue = 1
  /\ pass2Result.errorCount = 0 /\ pass2Result.finalOrgValue = 1
  /\ pass2Result.machineCode = (0 :> 36)

(***************************************************************************)
(* C12: the text transformation.                                           *)
(***************************************************************************)
\* PC with texts in which the caret follows a letter, '@', '[', a lower
\* case letter and a caret, at the start, in the middle and at the end
CaretLines ==
  {"PC \"D^^E\"", "PC \"M^Q\"", "PC \"^^\"", "PC \"A^\"", "PC \"@^\"",
   "PC \"Z^x\"", "PC \"[^\"", "PC \"a^b\"", "PC \"^^^\"", "PC 'A^^^'"}

SpecCaret == initOver(CaretLines) /\ [][Next]_vars

\* rule 1 applies at position p: a character in '@'..'Z' with '^' after it
controlPair(text, p) ==
  /\ p + 1 <= Len(text)
  /\ charCodeAt[At(text, p)] \in 64..90
  /\ At(text, p + 1) = "^"

\* rule 2 applies at position p: '^' with '^' after it, and rule 1 does not
caretPair(text, p) ==
  /\ ~controlPair(text, p)
  /\ p + 1 <= Len(text)
  /\ At(text, p) = "^" /\ At(text, p + 1) = "^"

consumed(text, p) == IF controlPair(text, p) \/ caretPair(text, p) THEN 2 ELSE 1

yielded(text, p) ==
  IF controlPair(text, p) THEN charCodeAt[At(text, p)] - 64
  ELSE IF caretPair(text, p) THEN 94
  ELSE charCodeAt[At(text, p)]

\* the scan from the left reaches position p
RECURSIVE scanReaches(_, _)
scanReaches(text, p) ==
  \/ p = 1
  \/ p > 1 /\ consumed(text, p - 1) = 1 /\ scanReaches(text, p - 1)
  \/ p > 2 /\ consumed(text, p - 2) = 2 /\ scanReaches(text, p - 2)

\* the positions in increasing order
inOrder(reached) ==
  [k \in 1..Cardinality(reached) |->
     CHOOSE p \in reached : Cardinality({q \in reached : q < p}) = k - 1]

\* bit 7 set on the last byte and on no other
lastMarked(codes) ==
  [k \in 1..Len(codes) |->
     IF k = Len(codes) /\ codes[k] < 128 THEN codes[k] + 128 ELSE codes[k]]

yieldedAt(text, starts) == [k \in 1..Len(starts) |-> yielded(text, starts[k])]

\* the bytes the three rules give for the text, the last one with bit 7 set
ruleBytes(text) ==
  lastMarked(yieldedAt(text, inOrder({p \in 1..Len(text) : scanReaches(text, p)})))

\* the text of a line PC "text"
sourcePC(t) ==
  IF t.line # null /\ t.error = null /\ t.mnemonic = "PC"
  THEN {m.text : m \in {m \in {matchPC(t.line)} : m.found}}
  ELSE {}

EndLines ==
  {".ORG 65535", ".ORG 65534", ".ORG 65536", ".ORG 70000", "NO", ":FAR NO", "LN 1",
   "LB 2", "PC \"AB\"", "SX 3", "J FAR"}

SpecEnd == initOver(EndLines) /\ [][Next]_vars

Addresses == 0..(ImageSize - 1)

\* C14: in every state of pass1 and pass2 the address counter is in
\* 0..65535, and so are every org_value of the label dictionary and the
\* finalOrgValue the passes return.
C14_CounterRange ==
  /\ orgValue \in Addresses
  /\ \A label \in DOMAIN labelDictionary : labelDictionary[label].org_value \in Addresses
  /\ pass1Result.errorCount >= 0 => pass1Result.finalOrgValue \in Addresses
  /\ pass2Result.errorCount >= 0 => pass2Result.finalOrgValue \in Addresses

\* Both passes have accepted .ORG 70000 and the label after it: FAR is
\* recorded at 70000 and both passes return 70001.
C14_Witness ==
  /\ pc = "pass2Done"
  /\ assemblyCode = <<".ORG 70000", ":FAR NO">>
  /\ pass1Result.errorCount = 0 /\ pass2Result.errorCount = 0
  /\ pass1Result.labelDictionary["FAR"].org_value = 70000
  /\ pass1Result.finalOrgValue = 70001 /\ pass2Result.finalOrgValue = 70001

\* C15: a line of pass2 that emits bytes (any line but .ORG) and adds no
\* diagnostic has all its bytes, which lie from the counter before the line
\* to the counter after it, inside the 65536-byte image.
C15_ImageEnd ==
  [][(lineDone /\ pc = "pass2") =>
       \A t \in thisLine :
         (reachesSwitch(t) /\ t.mnemonic # ".ORG" /\ silent) => orgValue' <= ImageSize]_vars

\* pass2 has reported no error for LN 1 at address 65535: the opcode is in
\* the last byte of the image and the two bytes of the value are nowhere.
C15_Witness ==
  /\ pc = "pass2Done"
  /\ assemblyCode = <<".ORG 65535", "LN 1">>
  /\ pass2Result.errorCount = 0
  /\ pass2Result.finalOrgValue = 65538
  /\ pass2Result.machineCode = (65535 :> 10)

(***************************************************************************)
(* The assembly session: the editor, the file upload and the buttons       *)
(* Pass 1 and Pass 2 of the assemble tab.  A handler runs to its end       *)
(* before the next event is taken.                                         *)
(***************************************************************************)
\* a labelled line, a branch to the label and a line with neither
SessionLines == {":L NO", "BV L", "NO"}

\* the text of the editor as split('\n') sees it; "" is the empty editor
editorTexts == {<<"">>} \cup sourcesOver(SessionLines)

\* files of one line, with and without the newline at their end
fileTexts ==
  {content \in sourcesOver(SessionLines) : Len(content) = 1}
    \cup {content \o <<"">> : content \in {c \in sourcesOver(SessionLines) : Len(c) = 1}}

\* no handler is running
atRest == pc \in {"idle", "pass1Done", "pass2Done"}

\* the session is followed until Pass 2 has returned once
sessionOpen == pass2Result = noResult

\* useState("") of the context, useState(null) of pass1Result
SessionInit ==
  /\ assemblyCode = <<"">>
  /\ pc = "idle"
  /\ i = 0
  /\ orgValue = 0
  /\ labelDictionary = <<>>
  /\ errors = <<>>
  /\ errorCount = 0
  /\ machineCode = <<>>
  /\ pass1Result = noResult
  /\ pass2Result = noResult
  /\ errorLines = <<>>
  /\ reader = noReader

\* onChange of the editor of the assemble tab and of the disassemble tab:
\* setAssemblyCode(e.target.value); pass1Result is left as it is
OnChange ==
  /\ atRest /\ sessionOpen
  /\ \E value \in editorTexts : assemblyCode' = value
  /\ UNCHANGED <<pc, i, orgValue, labelDictionary, errors, errorCount, machineCode,
                 pass1Result, pass2Result, errorLines, reader>>

\* assemblyCode.trim() is empty
blankText(lines) == \A k \in 1..Len(lines) : trim(lines[k]) = ""

\* before + content + after with the cursor at the start of line k, or at
\* the end of the text for k = Len(lines) + 1
insertAt(lines, k, content) ==
  IF k <= Len(lines)
  THEN SubSeq(lines, 1, k - 1) \o SubSeq(content, 1, Len(content) - 1)
         \o <<content[Len(content)] \o lines[k]>> \o SubSeq(lines, k + 1, Len(lines))
  ELSE SubSeq(lines, 1, Len(lines) - 1) \o <<lines[Len(lines)] \o content[1]>>
         \o SubSeq(content, 2, Len(content))

\* the text reader.onload sets: the file replaces an empty text and is
\* inserted at cursorPosition otherwise
loadedText(lines, cursorPosition, content) ==
  IF blankText(lines) THEN content ELSE insertAt(lines, cursorPosition, content)

\* handleFileUpload: a file is chosen and reader.readAsText(file) starts.
\* The callback onload is created here, with the assemblyCode and the
\* cursorPosition of this render; the cursor is where the last onSelect
\* left it, anywhere in the text.  One file is read at a time, and the
\* files drawn keep the text within editorTexts.
HandleFileUpload ==
  /\ atRest /\ sessionOpen
  /\ reader.readyState # "LOADING"
  /\ \E content \in fileTexts : \E cursorPosition \in 1..(Len(assemblyCode) + 1) :
       /\ loadedText(assemblyCode, cursorPosition, content) \in editorTexts
       /\ reader' = [readyState |-> "LOADING", result |-> content,
                     assemblyCode |-> assemblyCode, cursorPosition |-> cursorPosition]
  /\ UNCHANGED <<assemblyCode, pc, i, orgValue, labelDictionary, errors, errorCount,
                 machineCode, pass1Result, pass2Result, errorLines>>

\* reader.onload: the read has completed; assemblyCode and cursorPosition
\* are the ones of the callback, not those of the editor now
ReaderOnload ==
  /\ atRest
  /\ reader.readyState = "LOADING"
  /\ assemblyCode' = loadedText(reader.assemblyCode, reader.cursorPosition, reader.result)
  /\ reader' = [reader EXCEPT !.readyState = "DONE"]
  /\ UNCHANGED <<pc, i, orgValue, labelDictionary, errors, errorCount, machineCode,
                 pass1Result, pass2Result, errorLines>>

\* handleFileUpload and reader.onload with no event between them, as the
\* session of the buttons takes them; the FileReader is not kept
FileUpload ==
  /\ atRest /\ sessionOpen
  /\ \E content \in fileTexts :
       IF blankText(assemblyCode)
       THEN content \in editorTexts /\ assemblyCode' = content
       ELSE \E cursorPosition \in 1..(Len(assemblyCode) + 1) :
              \E inserted \in {insertAt(assemblyCode, cursorPosition, content)} \cap editorTexts :
                assemblyCode' = inserted
  /\ UNCHANGED <<pc, i, orgValue, labelDictionary, errors, errorCount, machineCode,
                 pass1Result, pass2Result, errorLines, reader>>

\* handlePass1 up to the loop of pass1; the button is disabled while
\* assemblyCode.trim() is empty
HandlePass1 ==
  /\ atRest /\ sessionOpen
  /\ ~blankText(assemblyCode)
  /\ orgValue' = 0
  /\ labelDictionary' = <<>>
  /\ errors' = <<>>
  /\ errorCount' = 0
  /\ i' = 0
  /\ pc' = "pass1"
  /\ UNCHANGED <<assemblyCode, machineCode, pass1Result, pass2Result, errorLines, reader>>

\* disabled || !pass1Result || (pass1Result?.errorCount ?? 1) > 0, where the
\* tool passes no disabled
isDisabledNoResult == pass1Result.errorCount < 0

isDisabled == pass1Result.errorCount < 0 \/ pass1Result.errorCount > 0

\* handlePass2 up to the loop of pass2, on a click the button takes
HandlePass2 ==
  /\ atRest /\ sessionOpen
  /\ ~isDisabled
  /\ pass1Result.errorCount >= 0   \* if (!pass1Result) return
  /\ labelDictionary' = pass1Result.labelDictionary
  /\ machineCode' = <<>>
  /\ errors' = <<>>
  /\ errorCount' = 0
  /\ orgValue' = 0
  /\ i' = 0
  /\ pc' = "pass2"
  /\ UNCHANGED <<assemblyCode, pass1Result, pass2Result, errorLines, reader>>

SessionNext ==
  \/ OnChange \/ FileUpload
  \/ HandlePass1 \/ Pass1Line \/ Pass1Return
  \/ HandlePass2 \/ Pass2Line \/ Pass2Return

SpecSession == SessionInit /\ [][SessionNext]_vars

(***************************************************************************)
(* C16: pass2 only reads the dictionary.                                   *)
(***************************************************************************)
\* the branch target of the line, when the dictionary does not hold it
absentTarget(t) ==
  IF t.mnemonic \in {"BV", "BN", "BE", "BR", "J", "JS"} /\ Len(t.parts) >= 2
  THEN {toUpperCase(t.parts[2])} \ (DOMAIN labelDictionary \cup {"*"})
  ELSE {}

\* C16: pass2 never adds, removes or changes an entry of the dictionary it
\* is given, which stays the dictionary of the Pass 1 result; a line whose
\* label is absent from the dictionary, and a branch whose target is
\* absent, adds a diagnostic, writes no byte and leaves the counter
\* unchanged.
C16_DictionaryReadOnly ==
  [][pc = "pass2" =>
       /\ labelDictionary' = labelDictionary
       /\ pass1Result' = pass1Result
       /\ labelDictionary' = pass1Result'.labelDictionary
       /\ lineDone =>
            \A t \in thisLine :
              /\ (t.line # null /\ t.error = null /\ t.label # null
                    /\ t.label \notin DOMAIN labelDictionary) => rejected
              /\ (reachesSwitch(t) /\ absentTarget(t) # {}) => rejected]_vars

\* pass2 has assembled a text whose label L the dictionary, built from
\* another text, does not hold: a diagnostic, and the dictionary as before.
C16_Witness ==
  /\ pc = "pass2Done"
  /\ assemblyCode = <<":L NO", "BV L">>
  /\ labelDictionary = <<>> /\ pass1Result.labelDictionary = <<>>
  /\ pass2Result.errors = <<"Line 1: Label not found in dictionary: L",
                            "Line 2: Branch label not found: L">>
  /\ pass2Result.finalOrgValue = 0

(***************************************************************************)
(* C17, C18: when Pass 2 can start.                                        *)
(***************************************************************************)
\* a handler calls pass2 in this step
pass2Called == pc # "pass2" /\ pc' = "pass2"

\* C17: pass2 is called only when a Pass 1 result exists and its errorCount
\* is 0; with no Pass 1 result, and with a Pass 1 result that has
\* diagnostics, the Pass 2 button is disabled and no step calls pass2.
C17_Pass2Enablement ==
  [][/\ pass2Called => (pass1Result.errorCount = 0 /\ pass1Result.errors = <<>>)
     /\ (pass1Result = noResult \/ pass1Result.errorCount > 0) => (isDisabled /\ ~pass2Called)]_vars

\* Pass 1 has returned with a diagnostic and the session is at rest: the
\* Pass 2 button is disabled.
C17_Witness ==
  /\ pc = "pass1Done"
  /\ assemblyCode = <<":L NO", ":L NO">>
  /\ pass1Result.errorCount = 1
  /\ pass1Result.errors = <<"Line 2: Duplicate label: L">>
  /\ isDisabled /\ ~ENABLED HandlePass2

\* the state of pass1 after the line, from the state before it
pass1After(st, lineNumber, lineString, r) ==
  IF lineString = null THEN st
  ELSE IF r.error # null
  THEN [st EXCEPT !.labelDictionary = r.labelDictionary,
                  !.errors = Append(@, errorEntry(lineNumber, r.error)),
                  !.errorCount = @ + 1]
  ELSE [st EXCEPT !.labelDictionary = r.labelDictionary, !.finalOrgValue = r.newOrgValue]

pass1Line(st, lineNumber, lineString) ==
  pass1After(st, lineNumber, lineString,
             processPass1Line(lineString, lineNumber, st.finalOrgValue, st.labelDictionary))

\* the loop of pass1 from line k on
RECURSIVE pass1Loop(_, _, _)
pass1Loop(lines, k, st) ==
  IF k > Len(lines) THEN st
  ELSE pass1Loop(lines, k + 1, pass1Line(st, k, normalizeLine(lines[k])))

\* pass1(assemblyCode), as one value
pass1(lines) ==
  pass1Loop(lines, 1, [labelDictionary |-> <<>>, errorCount |-> 0, errors |-> <<>>,
                       finalOrgValue |-> 0])

\* C18: after a change of the source text Pass 2 cannot start until Pass 1
\* has run again: whenever pass2 is called, the dictionary it is given is
\* the dictionary pass1 computes from the text pass2 assembles, and the
\* Pass 1 result of the session is the result of pass1 on that text.
C18_StaleResult ==
  [][pass2Called =>
       \A fresh \in {pass1(assemblyCode)} :
         /\ labelDictionary' = fresh.labelDictionary
         /\ pass1Result = fresh]_vars

\* Pass 1 ran on a text without labels, the text was changed, and Pass 2
\* has assembled the new text with the empty dictionary of the old one.
C18_Witness ==
  /\ pc = "pass2Done"
  /\ assemblyCode = <<":L NO">>
  /\ pass1Result.errorCount = 0 /\ pass1Result.finalOrgValue = 1
  /\ pass1Result.labelDictionary = <<>>
  /\ pass1(assemblyCode).labelDictionary # <<>>
  /\ pass2Result.errors = <<"Line 1: Label not found in dictionary: L">>

(***************************************************************************)
(* C19: division in expressions.                                           *)
(***************************************************************************)
\* operands that are one division, exact and inexact, of either sign
DivLines ==
  {"LB 7/2", "LB 6/2", "LB -7/2", "LN 7/2", "LN 1000/3", "LB 1/2", ".ORG 9/3",
   ".ORG 7/2", "NO", "LB 1/0", "LB 255/1"}

SpecDiv == initOver(DivLines) /\ [][Next]_vars

\* a divided by b, truncated toward zero
truncated(a, b) ==
  IF (a >= 0) = (b > 0) THEN abs(a) \div abs(b) ELSE 0 - (abs(a) \div abs(b))

\* the truncated quotient of an operand of the form a/b, b not zero
quotientOf(operand) ==
  LET slash == indexOf(operand, "/", 1)
      a == evaluateExpression(substring(operand, 1, slash - 1))
      b == evaluateExpression(substring(operand, slash + 1, Len(operand)))
  IN IF slash > 1 /\ slash < Len(operand) /\ a.error = null /\ b.error = null
        /\ b.value # 0
     THEN {truncated(a.value, b.value)} ELSE {}

\* C19: an operand a/b is the integer quotient of a by b truncated toward
\* zero, exact or not: LB a/b and LN a/b are accepted by both passes and
\* pass2 writes the bytes of the quotient (LB 7/2 writes 0x09, 0x03), and
\* .ORG a/b sets the counter to the quotient when it is not below the
\* counter.
C19_IntegerDivision ==
  [][lineDone =>
       \A t \in thisLine :
         (reachesSwitch(t) /\ t.mnemonic \in {"LB", "LN", ".ORG"} /\ Len(t.parts) >= 2) =>
           \A q \in quotientOf(t.parts[2]) :
             /\ (t.line = "LB 7/2" /\ pc = "pass2") => assembled(<<9, 3>>)
             /\ CASE t.mnemonic = ".ORG" ->
                       q >= orgValue => (silent /\ orgValue' = q)
                  [] t.mnemonic = "LB" ->
                       IF pc = "pass1" THEN silent /\ orgValue' = orgValue + 2
                       ELSE assembled(<<9, q % 256>>)
                  [] t.mnemonic = "LN" ->
                       IF pc = "pass1" THEN silent /\ orgValue' = orgValue + 3
                       ELSE assembled(<<10, (q % 65536) \div 256, q % 256>>)]_vars

\* Both passes have refused LB 7/2 and accepted LB 6/2: the image holds
\* 0x09, 0x03 for the exact division only.
C19_Witness ==
  /\ pc = "pass2Done"
  /\ assemblyCode = <<"LB 7/2", "LB 6/2">>
  /\ pass1Result.errors = <<"Line 1: Invalid expression: 7/2">>
  /\ pass2Result.errors = <<"Line 1: Invalid expression: 7/2">>
  /\ pass2Result.machineCode = (0 :> 9 @@ 1 :> 3)
  /\ pass2Result.finalOrgValue = 2

(***************************************************************************)
(* C20: the label of a line.                                               *)
(***************************************************************************)
\* names of 1, 3, 5, 8, 9 and 11 characters in both cases, with one and two
\* blanks before the rest, with a comment, and names with nothing after them
LabelLines ==
  {":A NO", ":abcdefgh NO", ":ABCDEFGHI NO", ":a1_B2  ds", ":LONGLABEL10 NO", "NO",
   ":ABCDEFGH", ":abcdefghi", ":A_1 NO // c"}

SpecLabel == initOver(LabelLines) /\ [][Next]_vars

\* the line starts with ":" and n characters of a name: a letter, then
\* letters, digits and underscores
namedBy(line, n) ==
  /\ n >= 1 /\ n + 1 <= Len(line)
  /\ At(line, 1) = ":"
  /\ IsLetter(At(line, 2))
  /\ \A k \in 3..(n + 1) : IsLetter(At(line, k)) \/ IsDigit(At(line, k)) \/ At(line, k) = "_"

\* the pairs <<n, w>> for which the line is :NAME rest with a NAME of n
\* characters, n at most most, then w blanks and a non-empty rest
labelForm(line, most) ==
  {f \in (1..Min({most, Len(line)})) \X (1..Len(line)) :
     /\ IsSpace(At(line, f[1] + 2))
     /\ f[1] + 1 + f[2] < Len(line)
     /\ ~IsSpace(At(line, f[1] + 2 + f[2]))
     /\ \A k \in (f[1] + 2)..(f[1] + 1 + f[2]) : IsSpace(At(line, k))
     /\ namedBy(line, f[1])}

\* the line starts with ":" and a name of 9 or more characters
longName(line) == Len(line) >= 10 /\ namedBy(line, 9)

\* what the claim says of extractLabel on the line
labelLaw(line, x) ==
  /\ \A f \in labelForm(line, 8) :
       /\ x.error = null
       /\ x.label = toUpperCase(substring(line, 2, f[1] + 1))
       /\ Len(x.label) = f[1]
       /\ \A k \in 1..f[1] : ~IsLower(At(x.label, k))
       /\ x.remaining = substring(line, f[1] + 2 + f[2], Len(line))
  /\ longName(line) => (x.label = null /\ x.error = "Label exceeds 8 characters")

\* C20: for every line :NAME rest with a NAME of 1 to 8 characters that
\* starts with a letter and a non-empty rest, extractLabel returns NAME in
\* upper case, rest and no error, and pass1 enters NAME into the dictionary
\* at the counter; for every NAME of 9 or more characters it returns no
\* label and 'Label exceeds 8 characters', and the passes report it and
\* leave dictionary and counter as they are.
C20_ExtractLabel ==
  [][lineDone =>
       /\ \A line \in {assemblyCode[i + 1], normalizeLine(assemblyCode[i + 1])} :
            \A x \in {extractLabel(line)} : labelLaw(line, x)
       /\ \A t \in thisLine :
            /\ pc = "pass1" =>
                 \A f \in labelForm(t.line, 8) :
                   \A name \in {substring(t.line, 2, f[1] + 1)} \ DOMAIN labelDictionary :
                     /\ name \in DOMAIN labelDictionary'
                     /\ labelDictionary'[name] =
                          [line_number |-> thisNumber, org_value |-> orgValue]
            /\ longName(t.line) =>
                 /\ reported /\ orgValue' = orgValue
                 /\ lastError = linePrefix(thisNumber) \o "Label exceeds 8 characters"
                 /\ labelDictionary' = labelDictionary]_vars

\* pass1 has entered the eight-character name in upper case and refused
\* the nine-character name.
C20_Witness ==
  /\ pc = "pass1Done"
  /\ assemblyCode = <<":abcdefgh NO", ":ABCDEFGHI NO">>
  /\ DOMAIN pass1Result.labelDictionary = {"ABCDEFGH"}
  /\ pass1Result.labelDictionary["ABCDEFGH"].org_value = 0
  /\ pass1Result.errors = <<"Line 2: Label exceeds 8 characters">>
  /\ pass1Result.finalOrgValue = 1

(***************************************************************************)
(* C21, C22: the diagnostics of a label.                                   *)
(***************************************************************************)
\* labels with one defect and with several at once, and well-formed lines
\* with and without a label
DefectLines ==
  {":1_ABCDEFGH", ":_ABCDEFGHI", ":ABCDEFGHI", ":AB", ":AB-C NO", ":1 NO", ":_X NO",
   ": NO", "NO", ":a NO"}

SpecDefect == initOver(DefectLines) /\ [][Next]_vars

\* the number of characters of a name at the start of the text after the
\* colon
nameLength(line) ==
  Cardinality({n \in 1..(Len(line) - 1) :
                 \A k \in 2..(n + 1) :
                   IsLetter(At(line, k)) \/ IsDigit(At(line, k)) \/ At(line, k) = "_"})

\* the diagnostic of a label that fails, by the priority of its defects
defectOf(line) ==
  IF IsDigit(At(line, 2)) THEN "Label cannot start with a number after colon"
  ELSE IF At(line, 2) = "_" THEN "Label cannot start with underscore after colon"
  ELSE IF nameLength(line) > 8 THEN "Label exceeds 8 characters"
  ELSE IF ~\E k \in 1..Len(line) : IsSpace(At(line, k))
  THEN "Label cannot stand by itself on the line"
  ELSE "Invalid label format"

\* what the claim says of extractLabel on the line
defectLaw(line, x) ==
  IF At(line, 1) # ":"
  THEN x = [label |-> null, remaining |-> line, error |-> null]
  ELSE IF x.label = null
  THEN x.error = defectOf(line) /\ x.remaining = line
  ELSE x.error = null

\* C21: on a line that begins with ':' and whose label fails, extractLabel
\* returns one diagnostic by the priority digit first, underscore first,
\* more than 8 characters, no white space on the line, 'Invalid label
\* format', and the passes report it; on a line that does not begin with
\* ':' it returns no label, the whole line and no error.
C21_LabelDefect ==
  [][lineDone =>
       /\ \A line \in {assemblyCode[i + 1], normalizeLine(assemblyCode[i + 1])} :
            line # null => \A x \in {extractLabel(line)} : defectLaw(line, x)
       /\ \A t \in thisLine :
            (t.line # null /\ At(t.line, 1) = ":" /\ t.label = null) =>
              /\ reported /\ orgValue' = orgValue
              /\ lastError = linePrefix(thisNumber) \o defectOf(t.line)
              /\ labelDictionary' = labelDictionary]_vars

\* pass1 has reported the digit of :1_ABCDEFGH, the underscore of
\* :_ABCDEFGHI and the length of :ABCDEFGHI, each of which has more than
\* eight characters and stands alone on its line.
C21_Witness ==
  /\ pc = "pass1Done"
  /\ assemblyCode = <<":1_ABCDEFGH", ":_ABCDEFGHI", ":ABCDEFGHI">>
  /\ pass1Result.errors = <<"Line 1: Label cannot start with a number after colon",
                            "Line 2: Label cannot start with underscore after colon",
                            "Line 3: Label exceeds 8 characters">>
  /\ pass1Result.labelDictionary = <<>>

\* C22: in pass1 every line whose label begins with '_' adds the 'Label
\* cannot start with underscore' diagnostic and no dictionary entry.
C22_UnderscoreLabel ==
  [][(lineDone /\ pc = "pass1") =>
       \A t \in thisLine :
         (t.line # null /\ At(t.line, 1) = ":" /\ At(t.line, 2) = "_") =>
           /\ reported
           /\ lastError = linePrefix(thisNumber) \o "Label cannot start with underscore after colon"
           /\ labelDictionary' = labelDictionary]_vars

\* pass1 has accepted :_X NO and entered _X into the dictionary.
C22_Witness ==
  /\ pc = "pass1Done"
  /\ assemblyCode = <<":_X NO">>
  /\ pass1Result.errorCount = 0
  /\ DOMAIN pass1Result.labelDictionary = {"_X"}
  /\ pass1Result.finalOrgValue = 1

(***************************************************************************)
(* C23: SX.                                                                *)
(***************************************************************************)
\* SX with one octal digit, with the digits 8 and 9, with no operand, and
\* with operands of several characters that begin with an octal digit
SXLines ==
  {"SX 0", "SX 7", "SX 8", "SX 9", "SX", "SX 78", "SX 5X", "SX 10", "SX 07", "SX +5",
   "SX X", "NO"}

SpecSX == initOver(SXLines) /\ [][Next]_vars

\* the value of an operand that is one octal digit
octalDigit(t) ==
  IF Len(t.parts) >= 2 /\ Len(t.parts[2]) = 1 /\ IsDigit(t.parts[2])
  THEN {digitValue(t.parts[2])} \cap 0..7
  ELSE {}

\* C23: SX d with an operand that is one octal digit 0..7 is accepted:
\* pass1 advances the counter by 1, pass2 writes the byte 0x00 + d and
\* advances the counter by 1; SX with any other operand, or none, adds a
\* diagnostic in both passes, writes nothing and leaves the counter
\* unchanged.
C23_OctalDigit ==
  [][lineDone =>
       \A t \in thisLine :
         (reachesSwitch(t) /\ t.mnemonic = "SX") =>
           /\ \A d \in octalDigit(t) :
                IF pc = "pass1" THEN silent /\ orgValue' = orgValue + 1
                ELSE assembled(<<d>>)
           /\ octalDigit(t) = {} =>
                IF pc = "pass1" THEN reported /\ orgValue' = orgValue ELSE rejected]_vars

\* Both passes have accepted SX 78: pass2 wrote the byte 0x07.
C23_Witness ==
  /\ pc = "pass2Done"
  /\ assemblyCode = <<"SX 78">>
  /\ pass1Result.errorCount = 0 /\ pass1Result.finalOrgValue = 1
  /\ pass2Result.errorCount = 0 /\ pass2Result.finalOrgValue = 1
  /\ pass2Result.machineCode = (0 :> 7)

(***************************************************************************)
(* C24: comments and blank lines.                                          *)
(***************************************************************************)
\* the marker after an instruction, alone on the line, twice on a line,
\* inside a quoted text; a single slash; blank lines
CommentLines ==
  {"PC \"A//B\"", "NO // c", "// only", "  ", "", "NO//x//y", ":L NO // l", "LB 6/2",
   "PC \"A/B\"", "BOGUS // x", " //"}

SpecComment == initOver(CommentLines) /\ [][Next]_vars

\* the line up to its first marker //, the whole line when it has none
beforeMarker(raw) ==
  LET markers == {k \in 1..(Len(raw) - 1) : At(raw, k) = "/" /\ At(raw, k + 1) = "/"}
      first == CHOOSE k \in markers : \A m \in markers : k <= m
  IN IF markers = {} THEN raw ELSE substring(raw, 1, first - 1)

\* the step does to the state what the pass does with the result r of the
\* line
outcome(r) ==
  /\ IF r.error # null
     THEN reported /\ lastError = linePrefix(thisNumber) \o r.error /\ orgValue' = orgValue
     ELSE silent /\ orgValue' = r.newOrgValue
  /\ IF pc = "pass1" THEN labelDictionary' = r.labelDictionary /\ noWrite
     ELSE machineCode' = r.machineCode /\ labelDictionary' = labelDictionary

\* C24: in both passes a line is processed as its text before the first
\* marker //, also when the marker lies inside a quoted literal (PC "A//B"
\* is processed as PC "A, which has no quoted text); a line that is empty
\* after truncation and trimming adds no diagnostic and changes neither
\* counter, dictionary nor image.
C24_Comment ==
  [][lineDone =>
       \A kept \in {trim(beforeMarker(assemblyCode[i + 1]))} :
         /\ IF kept = ""
            THEN silent /\ noWrite /\ orgValue' = orgValue
                 /\ labelDictionary' = labelDictionary
            ELSE \A t \in {parsed(upperCaseExceptQuoted(kept))} :
                   \A r \in {thisResult(t)} : outcome(r)
         /\ assemblyCode[i + 1] = "PC \"A//B\"" =>
              (reported /\ lastError = linePrefix(thisNumber) \o "PC requires quoted text")]_vars

\* Both passes have skipped the comment line and the blank line and have
\* refused PC "A//B", cut to PC "A.
C24_Witness ==
  /\ pc = "pass2Done"
  /\ assemblyCode = <<"// only", "  ", "PC \"A//B\"">>
  /\ pass1Result.errors = <<"Line 3: PC requires quoted text">>
  /\ pass2Result.errors = <<"Line 3: PC requires quoted text">>
  /\ pass2Result.finalOrgValue = 0 /\ pass2Result.machineCode = <<>>

(***************************************************************************)
(* C25: the instruction table.                                             *)
(***************************************************************************)
\* NC and other one-byte instructions of the table, the three instructions
\* the document declares no longer supported, and an unknown word
TableLines ==
  {"NC", "DT", "RD", "RE", "NO", "DS", "SP", "SB", "NX", "LS", "PN", "NL", "FS", "GL",
   "IL", "RT", "BOGUS", "nc"}

SpecTable == initOver(TableLines) /\ [][Next]_vars

\* the one-byte instructions of the table "Supported Instructions" with
\* their Pass 2 opcode
listedOpcode ==
  [NO |-> 8, DS |-> 11, SP |-> 12, SB |-> 16, RB |-> 17, FV |-> 18, SV |-> 19,
   GS |-> 20, RS |-> 21, GO |-> 22, NE |-> 23, AD |-> 24, SU |-> 25, MP |-> 26,
   DV |-> 27, CP |-> 28, NX |-> 29, NC |-> 30, LS |-> 31, PN |-> 32, PQ |-> 33,
   PT |-> 34, NL |-> 35, FS |-> 37, FE |-> 38, GL |-> 39, IL |-> 42, MT |-> 43,
   XQ |-> 44, WS |-> 45, US |-> 46, RT |-> 47]

\* the instructions of the table that take an operand
listedWithOperand ==
  {".ORG", "SX", "LB", "LN", "PC", "JS", "J", "BR", "BC", "BV", "BN", "BE"}

\* C25: every one-byte instruction of the table, NC with 0x1E among them,
\* is accepted by pass1, which advances the counter by 1, and by pass2,
\* which writes its listed opcode; every word that the table does not
\* list, DT, RD and RE among them, adds 'Unknown instruction or directive'
\* and leaves counter and image unchanged.
C25_InstructionTable ==
  [][lineDone =>
       \A t \in thisLine :
         reachesSwitch(t) =>
           /\ t.mnemonic \in DOMAIN listedOpcode =>
                IF pc = "pass1" THEN silent /\ orgValue' = orgValue + 1
                ELSE assembled(<<listedOpcode[t.mnemonic]>>)
           /\ t.mnemonic \notin (DOMAIN listedOpcode \cup listedWithOperand) =>
                /\ reported /\ noWrite /\ orgValue' = orgValue
                /\ lastError = linePrefix(thisNumber)
                                 \o "Unknown instruction or directive: " \o t.mnemonic]_vars

\* Both passes have refused NC and accepted DT: pass2 wrote 0x0D for DT
\* and nothing for NC.
C25_Witness ==
  /\ pc = "pass2Done"
  /\ assemblyCode = <<"NC", "DT">>
  /\ pass1Result.errors = <<"Line 1: Unknown instruction or directive: NC">>
  /\ pass2Result.errors = <<"Line 1: Unknown instruction or directive: NC">>
  /\ pass2Result.machineCode = (0 :> 13)
  /\ pass2Result.finalOrgValue = 1

(***************************************************************************)
(* C26, C27, C28: the two passes side by side, and the image.              *)
(***************************************************************************)
\* labels, branches and jumps within and out of range, .ORG forward and
\* backward, and instructions of one, two and three bytes
ImageLines ==
  {":L NO", "BV L", "BV M", ".ORG 40", ":M NO", "LN 1", "J M", ".ORG 3000", ".ORG 2",
   "PC \"AB\"", "BOGUS"}

SpecImage == initOver(ImageLines) /\ [][Next]_vars

\* the counter of pass1 after the first k lines of the text
pass1Counter(k) == pass1(SubSeq(assemblyCode, 1, k)).finalOrgValue

\* the label the line defines in the dictionary
definedHere(t) ==
  IF t.line # null /\ t.error = null /\ t.label # null
  THEN {l \in {t.label} \cap DOMAIN labelDictionary :
          labelDictionary[l].line_number = thisNumber}
  ELSE {}

\* pass2 after a pass1 without diagnostics: after the line its counter is
\* the counter pass1 had after the line, at a labelled line it is the
\* org_value of the label, and it returns the finalOrgValue of pass1
lockstep ==
  /\ lineDone =>
       /\ orgValue' = pass1Counter(thisNumber)
       /\ \A t \in thisLine : \A l \in definedHere(t) :
            orgValue = labelDictionary[l].org_value
  /\ pc' = "pass2Done" => pass2Result'.finalOrgValue = pass1Result.finalOrgValue

\* C26 as stated: if pass1 reports no diagnostic, pass2 on the same text
\* with the dictionary of pass1 moves in lockstep with pass1: after every
\* line the counters are equal, at every labelled line the counter of
\* pass2 is the label's org_value, and the finalOrgValue are equal.
C26_Lockstep ==
  [][(pc = "pass2" /\ pass1Result.errorCount = 0) => lockstep]_vars

\* C26 amended: if pass1 reports no diagnostic, pass2 moves in lockstep
\* with pass1 as long as pass2 has reported no diagnostic itself: up to
\* and including the line, and for finalOrgValue in the whole run.
C26_LockstepClean ==
  [][(pc = "pass2" /\ pass1Result.errorCount = 0 /\ errors' = <<>>) => lockstep]_vars

\* Both passes are clean on a text with a label, .ORG and a branch: pass2
\* met M at 40, where pass1 recorded it, and both return 41.
C26_Witness ==
  /\ pc = "pass2Done"
  /\ assemblyCode = <<"LN 1", ".ORG 40", ":M NO">>
  /\ pass1Result.errorCount = 0 /\ pass2Result.errorCount = 0
  /\ pass1Result.labelDictionary["M"].org_value = 40
  /\ pass2Result.machineCode = (0 :> 10 @@ 1 :> 0 @@ 2 :> 1 @@ 40 :> 8)
  /\ pass1Result.finalOrgValue = 41 /\ pass2Result.finalOrgValue = 41


\* the addresses the step leaves as they were: same byte, or still unwritten
untouched(a) ==
  IF a \in DOMAIN machineCode
  THEN a \in DOMAIN machineCode' /\ machineCode'[a] = machineCode[a]
  ELSE a \notin DOMAIN machineCode'

\* the line is an instruction: it has text after its label, and that text
\* is not the directive .ORG
isInstruction(t) ==
  t.line # null /\ t.error = null /\ t.mnemonic # "" /\ t.mnemonic # ".ORG"

\* the address lies in the byte range of the instruction the step
\* assembles: from the counter before the line up to the counter after it;
\* ok says that the step reports no diagnostic and the line is an instruction
inAssembledRange(a, ok) == ok /\ a >= orgValue /\ a < orgValue'

\* C27: pass2 starts with an image in which every address holds 0; a line
\* that yields a diagnostic modifies no byte; every line leaves every
\* address outside the byte range of the instruction it assembles as it
\* was, so that a blank line and .ORG write nothing and the gap .ORG skips
\* stays 0; and the image pass2 returns is the image so built.
C27_ImageFrame ==
  [][/\ pc' = "pass2" /\ pc # "pass2" => machineCode' = <<>>
     /\ (lineDone /\ pc = "pass2") =>
          /\ reported => noWrite
          /\ \A ok \in {silent /\ \A t \in thisLine : isInstruction(t)} :
               \A a \in DOMAIN machineCode \cup DOMAIN machineCode' :
                 inAssembledRange(a, ok) \/ untouched(a)
     /\ pc' = "pass2Done" =>
          /\ pass2Result'.machineCode = machineCode
          /\ \A a \in DOMAIN machineCode : a >= 0 /\ a < orgValue]_vars

\* pass2 has returned: J M was refused because M is at 3000 and wrote
\* nothing, .ORG skipped the addresses 0..2999, and the only byte of the
\* image is the NO at 3000.
C27_Witness ==
  /\ pc = "pass2Done"
  /\ assemblyCode = <<"J M", ".ORG 3000", ":M NO">>
  /\ pass2Result.errors = <<"Line 1: Target value out of range (0-2047): 3000">>
  /\ pass2Result.machineCode = (3000 :> 8)
  /\ pass2Result.finalOrgValue = 3001


\* C28: in pass2 every address written so far lies below the counter, the
\* counter never decreases, and a line assembled without a diagnostic
\* writes only from the counter on and moves the counter forward; so the
\* byte ranges of the assembled instructions are disjoint, their starts
\* increase with the line number and no address is written by two lines,
\* with or without .ORG in the text.
C28_DisjointRanges ==
  [][(lineDone /\ pc = "pass2") =>
       /\ \A a \in DOMAIN machineCode : a < orgValue
       /\ orgValue' >= orgValue
       /\ \A a \in DOMAIN machineCode : untouched(a)
       /\ \A a \in DOMAIN machineCode' \ DOMAIN machineCode : a >= orgValue /\ a < orgValue'
       /\ \A t \in thisLine : (isInstruction(t) /\ silent) => orgValue' > orgValue]_vars

\* pass2 has returned: after the three bytes of LN 1 the directive .ORG 2
\* was refused, so the three bytes of PC "AB" went to the addresses 3..5
\* and not onto the last byte of LN.
C28_Witness ==
  /\ pc = "pass2Done"
  /\ assemblyCode = <<"LN 1", ".ORG 2", "PC \"AB\"">>
  /\ pass2Result.errors = <<"Line 2: .ORG value cannot be less than current org_value">>
  /\ pass2Result.machineCode = (0 :> 10 @@ 1 :> 0 @@ 2 :> 1 @@ 3 :> 36 @@ 4 :> 65 @@ 5 :> 194)
  /\ pass2Result.finalOrgValue = 6


(***************************************************************************)
(* C29: the lines the editor highlights after Pass 1.                      *)
(***************************************************************************)
\* lines with and without a diagnostic of pass1
HighlightLines == {"NO", "BOGUS", ":L NO", ":1 NO", ".ORG", "LB", "LB 1", "J"}

SpecHighlight == initOver(HighlightLines) /\ [][Next]_vars

\* the line numbers that carry a diagnostic in a list of errors
diagnosticLines(list) ==
  {n \in 1..Len(assemblyCode) :
     \E j \in DOMAIN list : SubSeq(list[j], 1, Len(linePrefix(n))) = linePrefix(n)}

\* C29: once Pass 1 has run, the line numbers handed to the editor as
\* error lines are the line numbers that carry a diagnostic in the errors
\* of the Pass 1 result.
C29_ErrorLines ==
  pc = "pass1Done" =>
    {errorLines[k] : k \in DOMAIN errorLines} = diagnosticLines(pass1Result.errors)

\* Pass 1 has returned with a diagnostic for line 2 and for line 3, and no
\* line number was handed to the editor.
C29_Witness ==
  /\ pc = "pass1Done"
  /\ assemblyCode = <<"NO", "BOGUS", "LB">>
  /\ pass1Result.errors = <<"Line 2: Unknown instruction or directive: BOGUS",
                            "Line 3: LB requires an expression">>
  /\ errorLines = <<>>


(***************************************************************************)
(* C30: the read of an uploaded file completes after edits.                *)
(***************************************************************************)
\* the editor and the upload: edits, the choice of a file, and the
\* completion of its read, in every order
UploadNext == OnChange \/ HandleFileUpload \/ ReaderOnload

SpecUpload == SessionInit /\ [][UploadNext]_vars

\* C30: when the read of a file completes while the editor is not empty,
\* the new text is the text of the editor at that moment with the content
\* of the file inserted at a cursor position of that text, whatever edits
\* were made since the file was chosen.
C30_UploadKeepsEdits ==
  [][(reader.readyState = "LOADING" /\ reader'.readyState = "DONE" /\ ~blankText(assemblyCode)) =>
       \E cursorPosition \in 1..(Len(assemblyCode) + 1) :
         assemblyCode' = insertAt(assemblyCode, cursorPosition, reader.result)]_vars

\* The read of the file "BV L\n" has completed.  The file was chosen when
\* the editor held NO with the cursor at its start, and the text is that
\* text with the file inserted, whatever the editor held at completion.
C30_Witness ==
  /\ reader.readyState = "DONE"
  /\ reader.result = <<"BV L", "">>
  /\ reader.assemblyCode = <<"NO">> /\ reader.cursorPosition = 1
  /\ assemblyCode = <<"BV L", "NO">>

====
